---- MODULE Spec2Model ----
(***************************************************************************)
(* Segregated-free-list allocator (mm.c).  The heap is modelled word by   *)
(* word: mem[w+1] is the 32-bit word at byte address BASEADDR + 4*w. Every *)
(* pointer of the model is a byte offset from BASEADDR; the null pointer   *)
(* (absolute address 0) lies below the heap and is modelled by NULL.       *)
(***************************************************************************)
EXTENDS Integers, Sequences, FiniteSets, TLC

(* ------------------------------ bounds -------------------------------- *)
\* capacity of the raw heap in bytes: mem_sbrk refuses to go past it
MaxHeap == 1184
\* largest number of blocks the client holds at one time
MaxLive == 2
\* largest number of blocks it holds when all are of the smallest size
MaxSmall == 6
\* capacity of the raw heap of the client that asks for large blocks
LargeHeap == 4000
\* largest number of blocks that client holds at one time
MaxLarge == 3
\* number of connections the proxy serves at one time (one thread each)
MaxThreads == 2
\* largest value of the clock of the proxy
MaxTime == 1
\* number of children the shell forks in one run
MaxPids == 3

(* ------------------------- program constants -------------------------- *)
WSIZE == 4
DSIZE == 8
CHUNKSIZE == 464
SEG_NUM == 14
\* BASEADDR = 0x800000000: its high 32-bit word is 8, its low word is 0
BASE_HI == 8
SEG_SIZE1 == 16
SEG_SIZE2 == 32
SEG_SIZE3 == 64
SEG_SIZE4 == 128
SEG_SIZE5 == 256
SEG_SIZE6 == 480
SEG_SIZE7 == 960
SEG_SIZE8 == 1920
SEG_SIZE9 == 3840
SEG_SIZE10 == 7680
SEG_SIZE11 == 15360
SEG_SIZE12 == 30720
SEG_SIZE13 == 61440
\* cache.h
MAX_CACHE_SIZE == 1049000
MAX_OBJECT_SIZE == 102400
\* tsh.c
MAXJOBS == 16
UNDEF == 0
FG == 1
BG == 2
ST == 3

\* the null pointer, and the (void *)-1 that mem_sbrk returns on failure
NULL == -1
SBRK_FAIL == -2
\* a directory slot holding an address that is no heap address
WILD == -3

\* request sizes the client uses (bytes)
MallocSizes == {1, 460}
\* request sizes of the client that asks for large blocks
LargeSizes == {990, 1396}
\* contents of the words nobody owns: 0 (reads as a free tag of size 0, as a
\* null link) and 0x77777777 (reads as an allocated tag, as a wild link)
JunkWords == {0, 2004318071}
\* the word the client stores in the bytes it asked for
UserPattern == 1515870810

VARIABLES
    mem,             \* the raw heap region, word by word
    brk,             \* mem_brk: offset of the first byte past the heap
    heap_listp,      \* static char *heap_listp
    seg_list_start,  \* static char *seg_list_start
    req,             \* ghost: requested size of every block the client holds
    crashed,         \* the process died on a write through the null pointer
    fault,           \* ghost: some store fell outside the heap
    clash,           \* ghost: a call returned a block the client still held
    client           \* what the client asks for: see Clients

\* the proxy (proxy.c, cache.c)
VARIABLES
    thr,             \* the threads: where each is in doit, and its locals
    read_count,      \* int read_count
    read_lock,       \* sem_t read_lock: the value of the semaphore
    write_lock,      \* sem_t write_lock
    cache,           \* cache *c: the fields head and size of *c
    blocks,          \* the cache blocks ever allocated; block k is blocks[k]
    now,             \* what time(NULL) returns
    killed           \* the proxy died on a load through the null pointer

alloc_vars ==
    <<mem, brk, heap_listp, seg_list_start, req, crashed, fault, clash, client>>

proxy_vars ==
    <<thr, read_count, read_lock, write_lock, cache, blocks, now, killed>>

\* the shell (tsh.c)
VARIABLES
    job_list,        \* struct job_t job_list[MAXJOBS]: pid, jid and state
    nextjid,         \* int nextjid
    sh,              \* where the shell is in eval, and the locals of the builtin
    kids,            \* the children the shell has forked, and what each is doing
    pending,         \* the signals sent to the shell and not yet delivered
    blocked,         \* SIGCHLD, SIGINT and SIGTSTP are in the signal mask
    gone             \* the shell is no more: "no", "exit" or "segv"

shell_vars ==
    <<job_list, nextjid, sh, kids, pending, blocked, gone>>

\* the size classifier called on its own
VARIABLES
    asked,           \* the two sizes get_seg_listp was last called with
    listps           \* the directory slots it returned for them

class_vars == <<asked, listps>>

vars == <<alloc_vars, proxy_vars, shell_vars, class_vars>>

Threads == 1 .. MaxThreads
\* the process ids the kernel gives to the children of the shell
Pids == 1 .. MaxPids

\* the raw heap region holds NWords words; word w is mem[w + 1]
NWords == MaxHeap \div 4
Words == 0 .. NWords - 1

\* k copies of the word c
Rep(c, k) == [i \in 1 .. k |-> c]

(* ------------------------------ macros -------------------------------- *)
MAX(x, y) == IF x > y THEN x ELSE y

Bit(v, i) == (v \div (2 ^ i)) % 2

\* bitwise or of the low three bits
Or3(a, b) ==
    MAX(Bit(a, 0), Bit(b, 0)) + 2 * MAX(Bit(a, 1), Bit(b, 1))
        + 4 * MAX(Bit(a, 2), Bit(b, 2))

PACK(size, alloc) == (size \div 8) * 8 + Or3(size % 8, alloc)

\* ALIGN(p): round up to a multiple of 8
ALIGN(p) == ((p + 7) \div 8) * 8

\* a state of the allocator: s.mem, s.brk, s.hl (heap_listp),
\* s.sls (seg_list_start), s.fault (a store fell outside the heap)

GET(s, p) ==
    IF p >= 0 /\ p % 4 = 0 /\ (p \div 4) < Len(s.mem) THEN s.mem[(p \div 4) + 1] ELSE 0

PUT(s, p, val) ==
    IF p >= 0 /\ p % 4 = 0 /\ p + 4 <= s.brk
    THEN [s EXCEPT !.mem = [@ EXCEPT ![(p \div 4) + 1] = val]]
    ELSE [s EXCEPT !.fault = TRUE]

GET_PREV(s, p) == GET(s, p)
SET_PREV(s, p, val) == PUT(s, p, val)
GET_NEXT(s, p) == GET(s, p + WSIZE)
SET_NEXT(s, p, val) == PUT(s, p + WSIZE, val)

\* offsets are relative to BASEADDR, as the pointers of the model are
OFFSET_REAL(o) == o
REAL_OFFSET(r) == r

GET_SIZE(s, p) == (GET(s, p) \div 8) * 8
GET_ALLOC(s, p) == GET(s, p) % 2

HDRP(bp) == bp - WSIZE
FTRP(s, bp) == bp + GET_SIZE(s, HDRP(bp)) - DSIZE
NEXT_BLKP(s, bp) == bp + GET_SIZE(s, bp - WSIZE)
PREV_BLKP(s, bp) == bp - GET_SIZE(s, bp - DSIZE)

GET_PREV_ALLOC(s, p) == 2 * Bit(GET(s, HDRP(p)), 1)

\* *(unsigned long *)(listp): the 64-bit address stored in a directory slot
SlotGet(s, listp) ==
    LET lo == GET(s, listp)
        hi == GET(s, listp + WSIZE)
    IN  IF lo = 0 /\ hi = 0 THEN NULL
        ELSE IF hi = BASE_HI THEN lo
        ELSE WILD

\* *(unsigned long *)(listp) = ptr
SlotPut(s, listp, ptr) ==
    IF ptr = NULL
    THEN PUT(PUT(s, listp, 0), listp + WSIZE, 0)
    ELSE PUT(PUT(s, listp, ptr), listp + WSIZE, BASE_HI)

(* -------------------------- raw heap (memlib) ------------------------- *)
\* the capacity of the raw heap region in bytes
MAX_HEAP(s) == WSIZE * Len(s.mem)

mem_heap_lo == 0
mem_heap_hi(s) == s.brk - 1

\* extends the heap by incr bytes and returns the old break, or fails
mem_sbrk(s, incr) ==
    IF s.brk + incr > MAX_HEAP(s)
    THEN [s |-> s, p |-> SBRK_FAIL]
    ELSE [s |-> [s EXCEPT !.brk = @ + incr], p |-> s.brk]

(* ---------------------------- free lists ------------------------------ *)
\* A size_t of 2^63 or more is written as the negative number it is in two's
\* complement: -k stands for 2^64 - k.  Sums wrap as in the code as long as
\* they stay within TLC's integers, and since 8 divides 2^64 the quotient by
\* DSIZE times DSIZE is right for both signs.  a <= b, both unsigned:
ULE(a, b) == IF (a < 0) = (b < 0) THEN a <= b ELSE b < 0

\* a < b as the processor compares two size_t
ULT(a, b) == ~ULE(b, a)

\* the classes closed at their upper bound
get_seg_index_Inclusive(size) ==
    IF ULE(size, SEG_SIZE1) THEN 0
    ELSE IF ULE(size, SEG_SIZE2) THEN 1
    ELSE IF ULE(size, SEG_SIZE3) THEN 2
    ELSE IF ULE(size, SEG_SIZE4) THEN 3
    ELSE IF ULE(size, SEG_SIZE5) THEN 4
    ELSE IF ULE(size, SEG_SIZE6) THEN 5
    ELSE IF ULE(size, SEG_SIZE7) THEN 6
    ELSE IF ULE(size, SEG_SIZE8) THEN 7
    ELSE IF ULE(size, SEG_SIZE9) THEN 8
    ELSE IF ULE(size, SEG_SIZE10) THEN 9
    ELSE IF ULE(size, SEG_SIZE11) THEN 10
    ELSE IF ULE(size, SEG_SIZE12) THEN 11
    ELSE IF ULE(size, SEG_SIZE13) THEN 12
    ELSE 13

\* get_seg_listp: the index of the list a block of the given size belongs to
get_seg_index(size) ==
    IF ULT(size, SEG_SIZE1) THEN 0
    ELSE IF ULT(size, SEG_SIZE2) THEN 1
    ELSE IF ULT(size, SEG_SIZE3) THEN 2
    ELSE IF ULT(size, SEG_SIZE4) THEN 3
    ELSE IF ULT(size, SEG_SIZE5) THEN 4
    ELSE IF ULT(size, SEG_SIZE6) THEN 5
    ELSE IF ULT(size, SEG_SIZE7) THEN 6
    ELSE IF ULT(size, SEG_SIZE8) THEN 7
    ELSE IF ULT(size, SEG_SIZE9) THEN 8
    ELSE IF ULT(size, SEG_SIZE10) THEN 9
    ELSE IF ULT(size, SEG_SIZE11) THEN 10
    ELSE IF ULT(size, SEG_SIZE12) THEN 11
    ELSE IF ULT(size, SEG_SIZE13) THEN 12
    ELSE 13

get_seg_listp(s, size) == s.sls + get_seg_index(size) * DSIZE


\* add_free_block leaving the prev link of the old first block as it was
add_free_block_NoBackLink(s, ptr) ==
    LET free_listp == get_seg_listp(s, GET_SIZE(s, HDRP(ptr)))
        first_free == SlotGet(s, free_listp)
    IN  IF first_free = NULL
        THEN SET_NEXT(SET_PREV(SlotPut(s, free_listp, ptr), ptr, 0), ptr, 0)
        ELSE LET s1 == SET_PREV(s, ptr, 0)
                 s2 == SET_NEXT(s1, ptr, REAL_OFFSET(first_free))
             IN  SlotPut(s2, free_listp, ptr)

add_free_block(s, ptr) ==
    LET free_listp == get_seg_listp(s, GET_SIZE(s, HDRP(ptr)))
        first_free == SlotGet(s, free_listp)
    IN  IF first_free = NULL
        THEN SET_NEXT(SET_PREV(SlotPut(s, free_listp, ptr), ptr, 0), ptr, 0)
        ELSE LET s1 == SET_PREV(s, ptr, 0)
                 s2 == SET_NEXT(s1, ptr, REAL_OFFSET(first_free))
                 s3 == SlotPut(s2, free_listp, ptr)
             IN  SET_PREV(s3, first_free, REAL_OFFSET(ptr))


\* remove_free_block leaving the directory slot as it was when the block
\* is the only one of its list
remove_free_block_LeavesHead(s, ptr) ==
    LET free_listp == get_seg_listp(s, GET_SIZE(s, HDRP(ptr)))
        prev == GET_PREV(s, ptr)
        next == GET_NEXT(s, ptr)
    IN  IF prev = 0
        THEN IF next = 0
             THEN s
             ELSE SET_PREV(SlotPut(s, free_listp, OFFSET_REAL(next)),
                           OFFSET_REAL(next), 0)
        ELSE IF next = 0
             THEN SET_NEXT(s, OFFSET_REAL(prev), 0)
             ELSE SET_NEXT(SET_PREV(s, OFFSET_REAL(next), prev),
                           OFFSET_REAL(prev), next)

remove_free_block(s, ptr) ==
    LET free_listp == get_seg_listp(s, GET_SIZE(s, HDRP(ptr)))
        prev == GET_PREV(s, ptr)
        next == GET_NEXT(s, ptr)
    IN  IF prev = 0
        THEN IF next = 0
             THEN SlotPut(s, free_listp, NULL)
             ELSE SET_PREV(SlotPut(s, free_listp, OFFSET_REAL(next)),
                           OFFSET_REAL(next), 0)
        ELSE IF next = 0
             THEN SET_NEXT(s, OFFSET_REAL(prev), 0)
             ELSE SET_NEXT(SET_PREV(s, OFFSET_REAL(next), prev),
                           OFFSET_REAL(prev), next)

(* ----------------------------- coalesce ------------------------------- *)
\* PUT(FTRP(bp), val): the footer address is read from the header of bp
PUT_FTRP(s, bp, val) == PUT(s, FTRP(s, bp), val)

\* PUT(HDRP(PREV_BLKP(ptr)), PACK(size, GET_PREV_ALLOC(PREV_BLKP(ptr))))
PUT_HDRP_PREV(s, ptr, size) ==
    PUT(s, HDRP(PREV_BLKP(s, ptr)),
        PACK(size, GET_PREV_ALLOC(s, PREV_BLKP(s, ptr))))

\* PUT(FTRP(NEXT_BLKP(ptr)), val)
PUT_FTRP_NEXT(s, ptr, val) == PUT(s, FTRP(s, NEXT_BLKP(s, ptr)), val)

\* remove_free_block(NEXT_BLKP(ptr))
remove_next(s, ptr) == remove_free_block(s, NEXT_BLKP(s, ptr))

\* remove_free_block(PREV_BLKP(ptr))
remove_prev(s, ptr) == remove_free_block(s, PREV_BLKP(s, ptr))

\* ptr = PREV_BLKP(ptr); add_free_block(ptr); return ptr
add_at_prev(s, ptr) ==
    [s |-> add_free_block(s, PREV_BLKP(s, ptr)), p |-> PREV_BLKP(s, ptr)]

\* case 2 putting the block back in its list without the merge
coalesce_next_NoMerge(s, ptr, size) ==
    [s |-> add_free_block(s, ptr), p |-> ptr]

\* case 2, after the two removals: the next block is free
coalesce_next(s, ptr, size) ==
    LET size1 == size + GET_SIZE(s, HDRP(NEXT_BLKP(s, ptr)))
    IN  [s |-> add_free_block(PUT_FTRP(PUT(s, HDRP(ptr), PACK(size1, 2)),
                                       ptr, PACK(size1, 0)), ptr),
         p |-> ptr]

\* case 3, after the two removals: the previous block is free
coalesce_prev(s, ptr, size) ==
    LET size1 == size + GET_SIZE(s, HDRP(PREV_BLKP(s, ptr)))
    IN  add_at_prev(PUT_HDRP_PREV(PUT_FTRP(s, ptr, PACK(size1, 0)), ptr, size1),
                    ptr)

\* case 4 merging with the previous block only
coalesce_both_SkipsNext(s, ptr, size) == coalesce_prev(s, ptr, size)

\* case 4, after the three removals: both neighbours are free
coalesce_both(s, ptr, size) ==
    LET size1 == size + GET_SIZE(s, HDRP(NEXT_BLKP(s, ptr)))
                      + GET_SIZE(s, HDRP(PREV_BLKP(s, ptr)))
    IN  add_at_prev(PUT_FTRP_NEXT(PUT_HDRP_PREV(s, ptr, size1),
                                  ptr, PACK(size1, 0)), ptr)

coalesce(s, ptr) ==
    LET prev_alloc == GET_PREV_ALLOC(s, ptr)
        next_alloc == GET_ALLOC(s, HDRP(NEXT_BLKP(s, ptr)))
        size == GET_SIZE(s, HDRP(ptr))
    IN  IF prev_alloc # 0 /\ next_alloc # 0
        THEN [s |-> s, p |-> ptr]
        ELSE IF prev_alloc # 0 /\ next_alloc = 0
        THEN coalesce_next(remove_next(remove_free_block(s, ptr), ptr), ptr, size)
        ELSE IF prev_alloc = 0 /\ next_alloc # 0
        THEN coalesce_prev(remove_prev(remove_free_block(s, ptr), ptr), ptr, size)
        ELSE coalesce_both(remove_next(remove_prev(remove_free_block(s, ptr),
                                                   ptr), ptr), ptr, size)

(* ---------------------------- extend_heap ----------------------------- *)
\* PUT(HDRP(NEXT_BLKP(bp)), val)
PUT_HDRP_NEXT(s, bp, val) == PUT(s, HDRP(NEXT_BLKP(s, bp)), val)

\* if (size >= 2*DSIZE) add_free_block(bp)
add_if_block(s, bp, size) ==
    IF size >= 2 * DSIZE THEN add_free_block(s, bp) ELSE s


\* the new block written without an epilogue header after it
extend_heap_block_NoEpilogue(s, bp, size) ==
    coalesce(add_if_block(
                 PUT_FTRP(PUT(s, HDRP(bp), PACK(size, GET_PREV_ALLOC(s, bp))),
                          bp, PACK(size, 0)),
                 bp, size), bp)

\* extend_heap once mem_sbrk has returned bp: the free block's header and
\* footer, the new epilogue header, the free list, the merge
extend_heap_block(s, bp, size) ==
    coalesce(add_if_block(
                 PUT_HDRP_NEXT(
                     PUT_FTRP(PUT(s, HDRP(bp), PACK(size, GET_PREV_ALLOC(s, bp))),
                              bp, PACK(size, 0)),
                     bp, PACK(0, 1)),
                 bp, size), bp)

\* extend_heap rewriting the epilogue header when mem_sbrk refuses
extend_heap_MarksOnFailure(s, words) ==
    LET size0 == IF words % 2 = 1 THEN (words + 1) * WSIZE ELSE words * WSIZE
        size == MAX(size0, DSIZE)
        r == mem_sbrk(s, size)
    IN  IF r.p = SBRK_FAIL
        THEN [s |-> PUT(s, s.brk - WSIZE, PACK(0, 1)), p |-> NULL]
        ELSE extend_heap_block(r.s, r.p, size)

\* The assignment to size at source line 199 reads size before it is set;
\* line 201 overwrites it before any use, so every build yields this size.
extend_heap(s, words) ==
    LET size0 == IF words % 2 = 1 THEN (words + 1) * WSIZE ELSE words * WSIZE
        size == MAX(size0, DSIZE)
        r == mem_sbrk(s, size)
    IN  IF r.p = SBRK_FAIL
        THEN [s |-> s, p |-> NULL]
        ELSE extend_heap_block(r.s, r.p, size)

(* ------------------------------ mm_init ------------------------------- *)
RECURSIVE InitSlots(_, _)
\* the loop of mm_init: one mem_sbrk(2*WSIZE) per list, zeroed where it lands
InitSlots(s, i) ==
    IF i = SEG_NUM THEN [s |-> s, ok |-> TRUE]
    ELSE LET r == mem_sbrk(s, 2 * WSIZE)
         IN  IF r.p = SBRK_FAIL
             THEN [s |-> s, ok |-> FALSE]
             ELSE InitSlots(PUT(PUT(r.s, r.p, 0), r.p + WSIZE, 0), i + 1)

\* if (extend_heap(CHUNKSIZE/WSIZE) == NULL) return -1; return 0
mm_init_result(e) ==
    IF e.p = NULL THEN [s |-> e.s, rc |-> -1] ELSE [s |-> e.s, rc |-> 0]


\* the prologue written without the alignment padding word before it
mm_init_prologue_NoPad(s) ==
    LET r == mem_sbrk(s, 3 * WSIZE)
        h == r.p
    IN  IF h = SBRK_FAIL
        THEN [s |-> [r.s EXCEPT !.hl = SBRK_FAIL], rc |-> -1]
        ELSE mm_init_result(extend_heap(
                 [PUT(PUT(PUT(r.s, h, PACK(DSIZE, 1)),
                          h + 1 * WSIZE, PACK(DSIZE, 1)),
                      h + 2 * WSIZE, PACK(0, 3))
                  EXCEPT !.hl = h + 1 * WSIZE],
                 CHUNKSIZE \div WSIZE))

\* the prologue header written as that of a free block
mm_init_prologue_FreeHeader(s) ==
    LET r == mem_sbrk(s, 4 * WSIZE)
        h == r.p
    IN  IF h = SBRK_FAIL
        THEN [s |-> [r.s EXCEPT !.hl = SBRK_FAIL], rc |-> -1]
        ELSE mm_init_result(extend_heap(
                 [PUT(PUT(PUT(PUT(r.s, h, 0),
                              h + 1 * WSIZE, PACK(DSIZE, 0)),
                          h + 2 * WSIZE, PACK(DSIZE, 1)),
                      h + 3 * WSIZE, PACK(0, 3))
                  EXCEPT !.hl = h + 2 * WSIZE],
                 CHUNKSIZE \div WSIZE))

\* mm_init after its loop: padding, prologue, epilogue, first free block
mm_init_prologue(s) ==
    LET r == mem_sbrk(s, 4 * WSIZE)
        h == r.p
    IN  IF h = SBRK_FAIL
        THEN [s |-> [r.s EXCEPT !.hl = SBRK_FAIL], rc |-> -1]
        ELSE mm_init_result(extend_heap(
                 [PUT(PUT(PUT(PUT(r.s, h, 0),
                              h + 1 * WSIZE, PACK(DSIZE, 1)),
                          h + 2 * WSIZE, PACK(DSIZE, 1)),
                      h + 3 * WSIZE, PACK(0, 3))
                  EXCEPT !.hl = h + 2 * WSIZE],
                 CHUNKSIZE \div WSIZE))

\* mm_init once its loop has run
mm_init_lists(d) ==
    IF ~d.ok THEN [s |-> d.s, rc |-> -1] ELSE mm_init_prologue(d.s)

\* mm_init doing nothing once heap_listp is set
mm_init_Once(s) ==
    IF s.hl # NULL THEN [s |-> s, rc |-> 0]
    ELSE mm_init_lists(InitSlots([s EXCEPT !.sls = 0], 0))

\* returns the state and the int result (0 or -1)
mm_init(s) == mm_init_lists(InitSlots([s EXCEPT !.sls = 0], 0))

(* ------------------------------- place -------------------------------- *)
\* ptr = NEXT_BLKP(ptr); if (ptr != NULL) *(unsigned int *)HDRP(ptr) |= 0x2
\* place leaving the header of the next block as it was
set_prev_alloc_of_next_Skip(s, ptr) == s

set_prev_alloc_of_next(s, ptr) ==
    LET nxt == NEXT_BLKP(s, ptr)
    IN  PUT(s, HDRP(nxt), PACK(GET_SIZE(s, HDRP(nxt)),
                               Or3(GET(s, HDRP(nxt)) % 8, 2)))


\* the split writing no footer in the free block it splits off
place_split_NoFooter(s, ptr, rest) ==
    LET nxt == NEXT_BLKP(s, ptr)
    IN  add_free_block(PUT(s, HDRP(nxt), PACK(rest, 2)), nxt)

\* the split of place, after the header of the allocated part is written:
\* header and footer of the remainder, which joins its free list
place_split(s, ptr, rest) ==
    LET nxt == NEXT_BLKP(s, ptr)
    IN  add_free_block(PUT_FTRP(PUT(s, HDRP(nxt), PACK(rest, 2)),
                                nxt, PACK(rest, 0)), nxt)

\* place after remove_free_block(ptr)
place_removed(s, ptr, asize, csize, prev_alloc) ==
    IF csize - asize >= 2 * DSIZE
    THEN place_split(PUT(s, HDRP(ptr), PACK(asize, Or3(prev_alloc, 1))),
                     ptr, csize - asize)
    ELSE set_prev_alloc_of_next(
             PUT(s, HDRP(ptr), PACK(csize, Or3(prev_alloc, 1))), ptr)


\* place leaving the block in its free list
place_NoRemove(s, ptr, asize) ==
    place_removed(s, ptr, asize,
                  GET_SIZE(s, HDRP(ptr)), GET_PREV_ALLOC(s, ptr))

place(s, ptr, asize) ==
    place_removed(remove_free_block(s, ptr), ptr, asize,
                  GET_SIZE(s, HDRP(ptr)), GET_PREV_ALLOC(s, ptr))

(* ------------------------------ find_fit ------------------------------ *)
RECURSIVE FirstFitFrom(_, _, _, _)
\* the small-size branch of find_seg_fit, from node bp on
FirstFitFrom(s, asize, bp, fuel) ==
    IF asize <= GET_SIZE(s, HDRP(bp)) THEN bp
    ELSE IF GET_NEXT(s, bp) = 0 \/ fuel = 0 THEN NULL
    ELSE FirstFitFrom(s, asize, OFFSET_REAL(GET_NEXT(s, bp)), fuel - 1)

RECURSIVE BestFitFrom(_, _, _, _, _, _)
\* the large-size branch of find_seg_fit, from node bp on
BestFitFrom(s, asize, bp, result, small_size, fuel) ==
    LET block_size == GET_SIZE(s, HDRP(bp))
        better == asize < block_size /\ (result = NULL \/ block_size < small_size)
        result1 == IF better THEN bp ELSE result
        small1 == IF better THEN block_size ELSE small_size
    IN  IF asize = block_size THEN bp
        ELSE IF GET_NEXT(s, bp) = 0 \/ fuel = 0 THEN result1
        ELSE BestFitFrom(s, asize, OFFSET_REAL(GET_NEXT(s, bp)), result1, small1,
                         fuel - 1)

\* find_seg_fit taking the first fit for every size
find_seg_fit_FirstFit(s, asize, free_listp) ==
    LET first_free == SlotGet(s, free_listp)
    IN  IF first_free = NULL THEN NULL
        ELSE FirstFitFrom(s, asize, first_free, MaxHeap)

\* find_seg_fit taking the best fit for every size
find_seg_fit_BestFit(s, asize, free_listp) ==
    LET first_free == SlotGet(s, free_listp)
    IN  IF first_free = NULL THEN NULL
        ELSE BestFitFrom(s, asize, first_free, NULL, 0, MaxHeap)

find_seg_fit(s, asize, free_listp) ==
    LET first_free == SlotGet(s, free_listp)
    IN  IF first_free = NULL THEN NULL
        ELSE IF asize < SEG_SIZE7
        THEN FirstFitFrom(s, asize, first_free, MaxHeap)
        ELSE BestFitFrom(s, asize, first_free, NULL, 0, MaxHeap)

RECURSIVE FindFitFrom(_, _, _)
\* the while loop of find_fit and its final return
FindFitFrom(s, asize, free_listp) ==
    IF free_listp < s.sls + (SEG_NUM - 1) * DSIZE
    THEN LET nxt == free_listp + DSIZE
             fit == find_seg_fit(s, asize, nxt)
         IN  IF fit # NULL THEN fit ELSE FindFitFrom(s, asize, nxt)
    ELSE find_seg_fit(s, asize, free_listp)

\* find_fit looking in the list of the size's own class only
find_fit_OwnClassOnly(s, asize) ==
    find_seg_fit(s, asize, get_seg_listp(s, asize))

find_fit(s, asize) ==
    LET free_listp == get_seg_listp(s, asize)
        fit == find_seg_fit(s, asize, free_listp)
    IN  IF fit # NULL THEN fit ELSE FindFitFrom(s, asize, free_listp)

(* --------------------------- memset, memcpy --------------------------- *)
\* the low k bytes of word lo under the high 4-k bytes of word hi
\* (little-endian: the bytes at the lower addresses are the low-order ones)
Splice(hi, lo, k) == (hi \div (256 ^ k)) * (256 ^ k) + (lo % (256 ^ k))

\* the n bytes from dst on become the first n bytes of the words src
StoreBytes(s, dst, n, src) ==
    IF n = 0 THEN s
    ELSE IF dst < 0 \/ dst % 4 # 0 \/ dst + n > s.brk
    THEN [s EXCEPT !.fault = TRUE]
    ELSE
    LET d == dst \div 4
        full == n \div 4
        rem == n % 4
        last == IF rem = 0 THEN << >>
                ELSE <<Splice(s.mem[d + full + 1], src[full + 1], rem)>>
    IN  [s EXCEPT !.mem = SubSeq(s.mem, 1, d) \o SubSeq(src, 1, full) \o last
                          \o SubSeq(s.mem, d + full + Len(last) + 1, Len(s.mem))]

memset(s, dst, c, n) == StoreBytes(s, dst, n, Rep(c, (n + 3) \div 4))

memcpy(s, dst, from, n) ==
    StoreBytes(s, dst, n, [i \in 1 .. (n + 3) \div 4 |-> GET(s, from + 4 * (i - 1))])

(* ------------------------------- malloc ------------------------------- *)
\* malloc after extend_heap
malloc_extended(e, asize) ==
    IF e.p = NULL THEN [s |-> e.s, p |-> NULL]
    ELSE [s |-> place(e.s, e.p, asize), p |-> e.p]

\* malloc after find_fit
malloc_fit(s, asize, ptr) ==
    IF ptr # NULL THEN [s |-> place(s, ptr, asize), p |-> ptr]
    ELSE malloc_extended(extend_heap(s, MAX(asize, CHUNKSIZE) \div WSIZE), asize)


\* the block size rounded down to a multiple of 8
malloc_ready_RoundsDown(s, size) ==
    LET asize == IF ULE(size, DSIZE) THEN 2 * DSIZE
                 ELSE DSIZE * ((size + WSIZE) \div DSIZE)
    IN  IF size = 0 THEN [s |-> s, p |-> NULL]
        ELSE malloc_fit(s, asize, find_fit(s, asize))

\* no minimum block size for requests of at most 8 bytes
malloc_ready_NoMinimum(s, size) ==
    LET asize == DSIZE * ((size + WSIZE + (DSIZE - 1)) \div DSIZE)
    IN  IF size = 0 THEN [s |-> s, p |-> NULL]
        ELSE malloc_fit(s, asize, find_fit(s, asize))

\* no test for a request of 0 bytes
malloc_ready_NoZeroTest(s, size) ==
    LET asize == IF ULE(size, DSIZE) THEN 2 * DSIZE
                 ELSE DSIZE * ((size + WSIZE + (DSIZE - 1)) \div DSIZE)
    IN  malloc_fit(s, asize, find_fit(s, asize))

\* the adjusted block size that malloc computes for a request of size bytes
adjusted_size(size) ==
    IF ULE(size, DSIZE) THEN 2 * DSIZE
    ELSE DSIZE * ((size + WSIZE + (DSIZE - 1)) \div DSIZE)

\* malloc after the heap_listp == 0 test
malloc_ready(s, size) ==
    IF size = 0 THEN [s |-> s, p |-> NULL]
    ELSE malloc_fit(s, adjusted_size(size), find_fit(s, adjusted_size(size)))

malloc(s, size) ==
    malloc_ready(IF s.hl = NULL THEN mm_init(s).s ELSE s, size)

(* -------------------------------- free -------------------------------- *)
\* next = NEXT_BLKP(ptr); if (next != NULL) *(unsigned int *)HDRP(next) &= ~0x2
clear_prev_alloc_of_next(s, ptr) ==
    LET next == NEXT_BLKP(s, ptr)
    IN  IF next # NULL
        THEN PUT(s, HDRP(next),
                 GET(s, HDRP(next)) - 2 * Bit(GET(s, HDRP(next)), 1))
        ELSE s


\* free taking the address one past the heap for a block
free_BoundsInclusive(s, ptr) ==
    IF ptr = NULL THEN s
    ELSE IF ptr > mem_heap_hi(s) + 1 \/ ptr < DSIZE THEN s
    ELSE
    LET size == GET_SIZE(s, HDRP(ptr))
    IN  coalesce(add_free_block(
                     clear_prev_alloc_of_next(
                         PUT_FTRP(PUT(s, HDRP(ptr),
                                      PACK(size, GET_PREV_ALLOC(s, ptr))),
                                  ptr, PACK(size, 0)),
                         ptr),
                     ptr),
                 ptr).s

\* free without the merge with the free neighbours
free_NoCoalesce(s, ptr) ==
    IF ptr = NULL THEN s
    ELSE IF ptr > mem_heap_hi(s) \/ ptr < mem_heap_lo THEN s
    ELSE
    LET size == GET_SIZE(s, HDRP(ptr))
    IN  add_free_block(
            clear_prev_alloc_of_next(
                PUT_FTRP(PUT(s, HDRP(ptr), PACK(size, GET_PREV_ALLOC(s, ptr))),
                         ptr, PACK(size, 0)),
                ptr),
            ptr)

\* free leaving the prev-alloc bit of the next block set
free_KeepsPrevAllocBit(s, ptr) ==
    IF ptr = NULL THEN s
    ELSE IF ptr > mem_heap_hi(s) \/ ptr < mem_heap_lo THEN s
    ELSE
    LET size == GET_SIZE(s, HDRP(ptr))
    IN  coalesce(add_free_block(
                     PUT_FTRP(PUT(s, HDRP(ptr),
                                  PACK(size, GET_PREV_ALLOC(s, ptr))),
                              ptr, PACK(size, 0)),
                     ptr),
                 ptr).s

free(s, ptr) ==
    IF ptr = NULL THEN s
    ELSE IF ptr > mem_heap_hi(s) \/ ptr < mem_heap_lo THEN s
    ELSE
    LET size == GET_SIZE(s, HDRP(ptr))
    IN  coalesce(add_free_block(
                     clear_prev_alloc_of_next(
                         PUT_FTRP(PUT(s, HDRP(ptr),
                                      PACK(size, GET_PREV_ALLOC(s, ptr))),
                                  ptr, PACK(size, 0)),
                         ptr),
                     ptr),
                 ptr).s

(* ------------------------------ realloc ------------------------------- *)
\* realloc copying nothing into the new block
realloc_copy_NoCopy(m, oldptr, size) ==
    IF m.p = NULL THEN [s |-> m.s, p |-> NULL]
    ELSE [s |-> free(m.s, oldptr), p |-> m.p]

\* realloc giving the old block back also when malloc fails
realloc_copy_FreesOnFailure(m, oldptr, size) ==
    LET oldsize0 == GET_SIZE(m.s, HDRP(oldptr))
        oldsize == IF size < oldsize0 THEN size ELSE oldsize0
    IN  IF m.p = NULL THEN [s |-> free(m.s, oldptr), p |-> NULL]
        ELSE [s |-> free(memcpy(m.s, m.p, oldptr, oldsize), oldptr), p |-> m.p]

\* realloc: the number of bytes it tells memcpy to copy out of the old block
realloc_oldsize(s, oldptr, size) ==
    IF ~ULE(GET_SIZE(s, HDRP(oldptr)), size) THEN size
    ELSE GET_SIZE(s, HDRP(oldptr))

\* realloc after malloc(size): m is the state and the new pointer
realloc_copy(m, oldptr, size) ==
    IF m.p = NULL THEN [s |-> m.s, p |-> NULL]
    ELSE [s |-> free(memcpy(m.s, m.p, oldptr, realloc_oldsize(m.s, oldptr, size)), oldptr),
          p |-> m.p]

\* realloc testing size == 0 before oldptr == NULL
realloc_SizeTestFirst(s, oldptr, size) ==
    IF size = 0 THEN [s |-> free(s, oldptr), p |-> NULL]
    ELSE IF oldptr = NULL THEN malloc(s, size)
    ELSE realloc_copy(malloc(s, size), oldptr, size)

realloc(s, oldptr, size) ==
    IF oldptr = NULL THEN malloc(s, size)
    ELSE IF size = 0 THEN [s |-> free(s, oldptr), p |-> NULL]
    ELSE realloc_copy(malloc(s, size), oldptr, size)

(* ------------------------------- calloc ------------------------------- *)
\* A size_t has 64 bits; where its width matters it is given by its 8 bytes,
\* the low-order byte first.
SizeBytes == 8

\* the size_t of a number below 2^31
Size64(n) ==
    [i \in 1 .. SizeBytes |-> IF i <= 4 THEN (n \div 256 ^ (i - 1)) % 256 ELSE 0]

RECURSIVE Conv(_, _, _, _)
\* the sum of the products a[i] * b[j] that land on byte m, from i on
Conv(a, b, m, i) ==
    IF i > m \/ i >= Len(a) THEN 0
    ELSE (IF m - i < Len(b) THEN a[i + 1] * b[m - i + 1] ELSE 0)
         + Conv(a, b, m, i + 1)

RECURSIVE MulFrom(_, _, _, _)
\* the bytes of the product of a and b from byte m on, with the carry so far
MulFrom(a, b, m, carry) ==
    IF m = Len(a) + Len(b) THEN << >>
    ELSE <<(Conv(a, b, m, 0) + carry) % 256>>
         \o MulFrom(a, b, m + 1, (Conv(a, b, m, 0) + carry) \div 256)

\* the product of two size_t values as a number: 16 bytes
Product(a, b) == MulFrom(a, b, 0, 0)

\* the product as the machine computes it: the low 64 bits
Mul64(a, b) == SubSeq(Product(a, b), 1, SizeBytes)

\* the number a size_t below 2^31 stands for
ToInt(d) == d[1] + 256 * d[2] + 65536 * d[3] + 16777216 * d[4]

\* calloc after malloc(bytes).  memset(NULL, 0, bytes) with bytes > 0
\* stores through the null pointer: the result carries crash = TRUE
calloc_zero(m, bytes) ==
    IF m.p = NULL
    THEN [s |-> m.s, p |-> NULL, crash |-> bytes > 0]
    ELSE [s |-> memset(m.s, m.p, 0, bytes), p |-> m.p, crash |-> FALSE]

\* size_t bytes = nmemb * size: the product in 64 bits, as malloc takes it
calloc_bytes(nmemb, size) == ToInt(Mul64(nmemb, size))

\* nmemb and size are size_t values, given by their bytes
calloc(s, nmemb, size) ==
    calloc_zero(malloc(s, calloc_bytes(nmemb, size)), calloc_bytes(nmemb, size))

(* ----------------------- the heap, block by block --------------------- *)
(* --------------------------- mm_checkheap ----------------------------- *)
\* (1<<30)-1, which mm.c defines under the name INT_MAX
INT_MAX == 1073741823

\* mm_checkheap: size_t sizes[SEG_NUM+1]
sizes ==
    <<0, 16, 32, 64, 128, 256, 480, 960, 1920, 3840, 7680, 15360, 30720, 61440,
      INT_MAX>>

in_heap(s, p) == p <= mem_heap_hi(s) /\ p >= mem_heap_lo

\* BASEADDR is a multiple of 8: an address is aligned when its offset is
aligned(p) == ALIGN(p) = p

\* the diagnostic d when the test holds
Diag(test, d) == IF test THEN {d} ELSE {}

\* check_block: what it prints for the block at ptr
check_block(s, ptr) ==
    Diag(~in_heap(s, ptr), "block not in heap")
    \cup Diag(~aligned(ptr), "the block is not correctly aligned")
    \cup Diag(GET_SIZE(s, HDRP(ptr)) < 2 * DSIZE /\ ptr # s.hl, "wrong size of block")
    \cup Diag(GET_ALLOC(s, HDRP(ptr)) = 0
                  /\ GET_SIZE(s, FTRP(s, ptr)) # GET_SIZE(s, HDRP(ptr)),
              "the head_size and foot size is not the same")

\* check_list: if(cur_size<size_lo||cur_size>=size_hi), on size_t
wrong_list(cur_size, size_lo, size_hi) ==
    ULT(cur_size, size_lo) \/ ULE(size_hi, cur_size)

\* the body of check_list's loop: what it prints for the node bp
check_node(s, bp, size_lo, size_hi) ==
    Diag(~aligned(bp), "not aligned correctly")
    \cup Diag(~in_heap(s, bp), "block out of heap")
    \cup Diag(wrong_list(GET_SIZE(s, HDRP(bp)), size_lo, size_hi),
              "free block falls in wrong segregated list")
    \cup Diag(GET_PREV(s, OFFSET_REAL(GET_NEXT(s, bp))) # REAL_OFFSET(bp),
              "next/previous pointers are not consistent")

RECURSIVE check_list_loop(_, _, _, _, _, _)
\* check_list: while(GET_NEXT(bp)!=0). The loop reads the heap and keeps
\* nothing but bp, so it runs for ever exactly when it comes to a node it
\* has been at; seen holds the nodes it has been at.
check_list_loop(s, bp, size_lo, size_hi, seen, r) ==
    IF GET_NEXT(s, bp) = 0 THEN [r EXCEPT !.count = @ + 1]
    ELSE IF bp \in seen THEN [r EXCEPT !.ends = FALSE]
    ELSE check_list_loop(s, OFFSET_REAL(GET_NEXT(s, bp)), size_lo, size_hi,
                         seen \cup {bp},
                         [r EXCEPT !.count = @ + 1,
                                   !.out = @ \cup check_node(s, bp, size_lo, size_hi)])

\* check_list: what it prints, the number it returns, whether it returns
check_list(s, listp, size_lo, size_hi) ==
    IF SlotGet(s, listp) = NULL THEN [out |-> {}, count |-> 0, ends |-> TRUE]
    ELSE check_list_loop(s, SlotGet(s, listp), size_lo, size_hi, {},
                         [out |-> {}, count |-> 0, ends |-> TRUE])

\* mm_checkheap: the checks of the prologue and of the epilogue
check_frame(s) ==
    Diag(~aligned(s.hl), "prologue alignment error")
    \cup Diag(GET_SIZE(s, s.hl) # DSIZE, "prologue header size error")
    \cup Diag(GET_ALLOC(s, s.hl) # 1, "prologue header allocate error")
    \cup Diag(GET_SIZE(s, s.hl - WSIZE) # DSIZE, "prologue header size error")
    \cup Diag(GET_ALLOC(s, s.hl - WSIZE) # 1, "prologue header allocate error")
    \cup Diag(GET_SIZE(s, mem_heap_hi(s) - 3) # 0, "epilogue size error")
    \cup Diag(GET_ALLOC(s, mem_heap_hi(s) - 3) # 1, "epilogue allocate error")

\* the body of mm_checkheap's loop over the blocks: what it prints at ptr
check_step(s, ptr) ==
    check_block(s, ptr)
    \cup Diag(GET_ALLOC(s, HDRP(ptr)) # GET_PREV_ALLOC(s, NEXT_BLKP(s, ptr)) \div 2,
              "allocate flag error of next block")
    \cup Diag(GET_ALLOC(s, HDRP(ptr)) = 0 /\ GET_ALLOC(s, HDRP(NEXT_BLKP(s, ptr))) = 0,
              "two consecutive free blocks exists")

RECURSIVE check_blocks(_, _, _)
\* mm_checkheap: for (ptr = heap_listp; GET_SIZE(HDRP(ptr))>0; ptr = NEXT_BLKP(ptr))
\* ptr goes up by a positive size at every turn and a word past the raw heap
\* reads as 0 here, so the loop ends.
check_blocks(s, ptr, r) ==
    IF GET_SIZE(s, HDRP(ptr)) = 0 THEN r
    ELSE check_blocks(s, NEXT_BLKP(s, ptr),
                      [out |-> r.out \cup check_step(s, ptr),
                       count |-> r.count + (1 - GET_ALLOC(s, HDRP(ptr)))])

\* r after check_list has returned l
check_add(r, l) ==
    [out |-> r.out \cup l.out, count |-> r.count + l.count, ends |-> l.ends]

RECURSIVE check_lists(_, _, _)
\* mm_checkheap: for(i = 0; i<SEG_NUM; i++) free_count += check_list(...)
check_lists(s, i, r) ==
    IF i = SEG_NUM \/ ~r.ends THEN r
    ELSE check_lists(s, i + 1,
                     check_add(r, check_list(s, s.sls + i * DSIZE,
                                             sizes[i + 1], sizes[i + 2])))

\* mm_checkheap once the blocks are walked (b) and the lists are walked (l)
check_total(f, b, l) ==
    [out |-> f \cup b.out \cup l.out
             \cup Diag(l.ends /\ l.count # b.count, "free blocks number not match"),
     ends |-> l.ends]

\* mm_checkheap: what it prints and whether it returns.  It stores nothing
\* in the heap and nothing in the allocator's variables.
mm_checkheap(s) ==
    check_total(check_frame(s),
                check_blocks(s, s.hl, [out |-> {}, count |-> 0]),
                check_lists(s, 0, [out |-> {}, count |-> 0, ends |-> TRUE]))

RECURSIVE WalkFrom(_, _, _)
\* the loop of mm_checkheap: the block pointers from bp up to the first
\* header of size 0
WalkFrom(s, bp, fuel) ==
    IF fuel = 0 \/ bp < DSIZE \/ bp > s.brk \/ GET_SIZE(s, HDRP(bp)) = 0
    THEN << >>
    ELSE <<bp>> \o WalkFrom(s, NEXT_BLKP(s, bp), fuel - 1)

\* the prologue and the blocks after it, in address order
HeapWalk(s) == IF s.hl < DSIZE THEN << >> ELSE WalkFrom(s, s.hl, MAX_HEAP(s) \div DSIZE)

\* the blocks of the blocks zone (the prologue left out)
BlocksOf(s) == IF HeapWalk(s) = << >> THEN << >> ELSE Tail(HeapWalk(s))

\* where the walk stops: the block pointer of the epilogue
WalkEnd(s) ==
    LET w == HeapWalk(s)
    IN  IF w = << >> THEN s.hl ELSE NEXT_BLKP(s, w[Len(w)])

Range(f) == {f[i] : i \in DOMAIN f}

(* ------------------ memory the allocator does not own ----------------- *)
\* The allocator owns the directory, the prologue, every header, the links
\* and the footer of every free block and the epilogue header; the client
\* owns the bytes it asked for.  Every other word holds anything at all.

\* the words of the block at bp, those nobody owns holding v
PaintBlock(s, rq, v, bp) ==
    LET h == HDRP(bp) \div 4
        n == GET_SIZE(s, HDRP(bp)) \div 4
        c == IF bp \in DOMAIN rq THEN (rq[bp] + 3) \div 4 ELSE 0
    IN  IF GET_ALLOC(s, HDRP(bp)) = 1
        THEN SubSeq(s.mem, h + 1, h + 1 + c) \o Rep(v, n - 1 - c)
        ELSE SubSeq(s.mem, h + 1, h + 3) \o Rep(v, n - 4) \o <<s.mem[h + n]>>

RECURSIVE PaintBlocks(_, _, _, _, _)
PaintBlocks(s, rq, v, w, i) ==
    IF i > Len(w) THEN << >>
    ELSE PaintBlock(s, rq, v, w[i]) \o PaintBlocks(s, rq, v, w, i + 1)

\* s with v in every word nobody owns
Repaint(s, rq, v) ==
    IF s.hl = NULL THEN [s EXCEPT !.mem = Rep(v, Len(s.mem))]
    ELSE IF s.hl < DSIZE \/ s.hl + WSIZE > s.brk THEN s
    ELSE
    LET w == HeapWalk(s)
        e == HDRP(NEXT_BLKP(s, w[Len(w)])) \div 4
        m == SubSeq(s.mem, 1, (s.hl \div 4) + 1)
                \o PaintBlocks(s, rq, v, w, 2)
                \o <<GET(s, 4 * e)>> \o Rep(v, Len(s.mem) - e - 1)
    IN  IF Len(m) = Len(s.mem) THEN [s EXCEPT !.mem = m] ELSE s

\* an operation starts with the words nobody owns holding junk
Havoc(s, rq, junk) == IF junk = 0 THEN s ELSE Repaint(s, rq, junk)

\* what an operation leaves in the words nobody owns is forgotten
Scrub(s, rq) == Repaint(s, rq, 0)

\* the client stores its data in the n bytes at p, past the first keep bytes
ClientFill(s, p, n, keep) ==
    LET k == keep \div 4
        src == Rep(UserPattern, (n + 3) \div 4)
        s1 == StoreBytes(s, p + 4 * k, n - 4 * k, src)
    IN  IF keep % 4 = 0 \/ keep >= n THEN s1
        ELSE [s1 EXCEPT !.mem[(p \div 4) + k + 1] =
                            Splice(UserPattern, s.mem[(p \div 4) + k + 1], keep % 4)]

(* ------------------------- the state machine -------------------------- *)
\* main of proxy.c before the accept loop: cache_init, Sem_init, read_count
ProxyStart ==
    /\ thr = [t \in Threads |-> [pc |-> "accept", uri |-> 0, node |-> 0, hit |-> FALSE, size |-> 0]]
    /\ read_count = 0
    /\ read_lock = 1
    /\ write_lock = 1
    /\ cache = [head |-> 0, size |-> 0]
    /\ blocks = << >>
    /\ now = 0
    /\ killed = FALSE

\* no size has been classified: the slots are those of size 0
ClassStart ==
    /\ asked = <<0, 0>>
    /\ listps = <<0, 0>>

\* main: initjobs(job_list), the handlers installed, no signal blocked, the
\* shell about to read its first command line
ShellStart ==
    /\ job_list = [i \in 1 .. MAXJOBS |-> [pid |-> 0, jid |-> 0, state |-> UNDEF]]
    /\ nextjid = 1
    /\ sh = [pc |-> "prompt", cmd |-> "none", pid |-> 0, job |-> 0]
    /\ kids = [p \in Pids |-> "unborn"]
    /\ pending = {}
    /\ blocked = FALSE
    /\ gone = "no"

RECURSIVE FillAll(_, _, _)
\* the client stores its data in every block of ps
FillAll(s, rq, ps) ==
    IF ps = {} THEN s
    ELSE LET p == CHOOSE q \in ps : TRUE
         IN  FillAll(ClientFill(s, p, rq[p], 0), rq, ps \ {p})

\* The state an operation starts from: between two calls the client has
\* stored its data in the blocks it holds, and the words nobody owns hold junk.
Before(junk) ==
    Havoc(FillAll([mem |-> mem, brk |-> brk, hl |-> heap_listp,
                   sls |-> seg_list_start, fault |-> fault], req, DOMAIN req),
          req, junk)

Install(s) ==
    /\ UNCHANGED <<proxy_vars, shell_vars, class_vars>>
    /\ mem' = s.mem
    /\ brk' = s.brk
    /\ heap_listp' = s.hl
    /\ seg_list_start' = s.sls
    /\ fault' = s.fault
    /\ client' = client

Live == DOMAIN req

\* A "mixed" client holds up to MaxLive blocks of the sizes of MallocSizes and
\* of calloc; a "small" client holds up to MaxSmall blocks of one byte.
Clients == {"mixed", "small"}
Cap == IF client = "small" THEN MaxSmall ELSE IF client = "large" THEN MaxLarge ELSE MaxLive
Asks(n) == client = "small" => n <= 1
\* a call may hand out the block p: the client has room for one more block,
\* or the call fails
Room(p) == p # NULL => Cardinality(Live) < Cap

Hold(rq, p, n) == [q \in DOMAIN rq \cup {p} |-> IF q = p THEN n ELSE rq[q]]
Drop(rq, p) == [q \in DOMAIN rq \ {p} |-> rq[q]]

\* 2^63 + 9
BigCount == [i \in 1 .. SizeBytes |-> IF i = 1 THEN 9 ELSE IF i = SizeBytes THEN 128 ELSE 0]

\* the count and the element size the client passes to calloc: 0 x 9, 2 x 9
\* and (2^63 + 9) x 2, whose product is 18 more than 2^64
CallocArgs ==
    {<<Size64(0), Size64(9)>>, <<Size64(2), Size64(9)>>, <<BigCount, Size64(2)>>}

Init ==
    /\ mem = Rep(0, NWords)
    /\ brk = 0
    /\ heap_listp = NULL
    /\ seg_list_start = NULL
    /\ req = [q \in {} |-> 0]
    /\ crashed = FALSE
    /\ fault = FALSE
    /\ clash = FALSE
    /\ client \in Clients
    /\ ProxyStart
    /\ ShellStart
    /\ ClassStart

\* the driver initializes the allocator on an empty raw heap
MmInit ==
    /\ ~crashed
    /\ brk = 0
    /\ \E junk \in JunkWords :
        \E r \in {mm_init(Before(junk))} :
        \E s2 \in {Scrub(r.s, req)} :
            /\ Install(s2)
    /\ UNCHANGED <<req, crashed, clash>>

\* malloc(n); the client then stores its data in the block
Malloc(n) ==
    /\ ~crashed
    /\ Asks(n)
    /\ \E junk \in JunkWords :
        \E r \in {malloc(Before(junk), n)} :
        Room(r.p) /\
        \E rq \in {IF r.p = NULL THEN req ELSE Hold(req, r.p, n)} :
        \E s2 \in {Scrub(IF r.p = NULL THEN r.s ELSE ClientFill(r.s, r.p, n, 0), rq)} :
            /\ Install(s2)
            /\ req' = rq
            /\ clash' = (clash \/ r.p \in Live)
    /\ UNCHANGED crashed

\* a pointer above the heap
OutPtr == brk + DSIZE

Free(p) ==
    /\ ~crashed
    /\ \E junk \in JunkWords :
        \E rq \in {Drop(req, p)} :
        \E s2 \in {Scrub(free(Before(junk), p), rq)} :
            /\ Install(s2)
            /\ req' = rq
    /\ UNCHANGED <<crashed, clash>>

\* realloc(p, n); the client then stores its data past the bytes it had
Realloc(p, n) ==
    /\ ~crashed
    /\ Asks(n)
    /\ \E junk \in JunkWords :
        \E r \in {realloc(Before(junk), p, n)} :
        (p = NULL => Room(r.p)) /\
        \E had \in {IF p = NULL THEN 0 ELSE IF n < req[p] THEN n ELSE req[p]} :
        \E rq \in {IF r.p = NULL
                   THEN (IF n = 0 /\ p # NULL THEN Drop(req, p) ELSE req)
                   ELSE Hold(Drop(req, p), r.p, n)} :
        \E s2 \in {Scrub(IF r.p = NULL THEN r.s ELSE ClientFill(r.s, r.p, n, had), rq)} :
            /\ Install(s2)
            /\ req' = rq
            /\ clash' = (clash \/ r.p \in Live)
    /\ UNCHANGED crashed

\* calloc(k, n); the block keeps what calloc left in it until the next call.
\* A store through the null pointer is undefined: the process is killed, or
\* the bytes land outside the heap and calloc returns.
Calloc(k, n) ==
    /\ ~crashed
    /\ Asks(calloc_bytes(k, n))
    /\ \E junk \in JunkWords :
        \E r \in {calloc(Before(junk), k, n)} :
        Room(r.p) /\
        \E rq \in {IF r.p = NULL THEN req ELSE Hold(req, r.p, calloc_bytes(k, n))} :
        \E s2 \in {Scrub(r.s, rq)} :
            /\ Install(s2)
            /\ req' = rq
            /\ clash' = (clash \/ r.p \in Live)
            /\ crashed' \in (IF r.crash THEN BOOLEAN ELSE {FALSE})

Next ==
    \/ MmInit
    \/ \E n \in MallocSizes \cup {0} : Malloc(n)
    \/ \E p \in Live \cup {NULL, OutPtr} : Free(p)
    \/ \E p \in Live \cup {NULL}, n \in MallocSizes \cup {0} : Realloc(p, n)
    \/ \E a \in CallocArgs : Calloc(a[1], a[2])

Spec == Init /\ [][Next]_vars

\* A "large" client holds up to MaxLarge blocks of the sizes of LargeSizes on a
\* raw heap of LargeHeap bytes, and calls malloc and free only.
LargeInit ==
    /\ mem = Rep(0, LargeHeap \div 4)
    /\ brk = 0
    /\ heap_listp = NULL
    /\ seg_list_start = NULL
    /\ req = [q \in {} |-> 0]
    /\ crashed = FALSE
    /\ fault = FALSE
    /\ clash = FALSE
    /\ client = "large"
    /\ ProxyStart
    /\ ShellStart
    /\ ClassStart

LargeNext ==
    \/ MmInit
    \/ \E n \in LargeSizes : Malloc(n)
    \/ \E p \in Live : Free(p)

LargeSpec == LargeInit /\ [][LargeNext]_vars


(* --------------------- the heap between two calls --------------------- *)
Cur ==
    [mem |-> mem, brk |-> brk, hl |-> heap_listp, sls |-> seg_list_start,
     fault |-> fault]

\* mm_init has run and succeeded
Ready == heap_listp >= DSIZE

\* the block pointers of the blocks zone, in address order
Blocks == BlocksOf(Cur)

Size(bp) == GET_SIZE(Cur, HDRP(bp))
IsFree(bp) == GET_ALLOC(Cur, HDRP(bp)) = 0

FreeBlocks == {bp \in Range(Blocks) : IsFree(bp)}
AllocBlocks == {bp \in Range(Blocks) : ~IsFree(bp)}

\* no heap holds more blocks than this
MaxBlocks == MaxHeap \div (2 * DSIZE)

RECURSIVE ListFrom(_, _, _)
\* the nodes of a free list from bp on, following the next links
ListFrom(s, bp, fuel) ==
    IF fuel = 0 \/ bp = 0 \/ bp = NULL THEN << >>
    ELSE <<bp>> \o ListFrom(s, OFFSET_REAL(GET_NEXT(s, bp)), fuel - 1)

\* the nodes of free list i, from the block its directory slot names
SegList(i) ==
    ListFrom(Cur, SlotGet(Cur, seg_list_start + i * DSIZE), MaxBlocks + 1)

Lists == 0 .. SEG_NUM - 1

\* the bytes of the payload of the block at bp
Payload(bp) == bp .. (bp + Size(bp) - WSIZE - 1)

C9_Aligned == \A p \in Live : p % DSIZE = 0

\* calloc returned a block that is not the first of the heap
C9_Witness ==
    \E p \in Live : p > heap_listp + DSIZE /\ req[p] < 2 * DSIZE + WSIZE /\ req[p] > DSIZE

(* ---------------------------- the heap's shape ------------------------ *)
RECURSIVE SumSizes(_, _)
\* the sizes of the blocks w[i], w[i+1], ... added up
SumSizes(w, i) ==
    IF i > Len(w) THEN 0 ELSE Size(w[i]) + SumSizes(w, i + 1)

RECURSIVE AllNodes(_)
AllNodes(i) == IF i = SEG_NUM THEN << >> ELSE SegList(i) \o AllNodes(i + 1)

C11_MallocZeroAnyState ==
    \A junk \in JunkWords :
        LET r == malloc(Before(junk), 0)
        IN  r.p = NULL /\ r.s.brk = brk /\ r.s.mem = Before(junk).mem

\* C11 (amended): malloc(0) returns none, and once heap_listp is set it
\* leaves the heap extent, the directory, every header, footer and link and
\* the two globals as they were.
C11_MallocZero ==
    \A junk \in JunkWords :
        LET r == malloc(Before(junk), 0)
        IN  r.p = NULL /\ (heap_listp # NULL => r.s = Before(junk))

\* malloc(0) on a heap with a held block and two free blocks
C11_Witness ==
    /\ Ready
    /\ Live # {}
    /\ Cardinality(FreeBlocks) >= 2
    /\ \A junk \in JunkWords : malloc(Before(junk), 0).p = NULL

\* the block size malloc needs for a request of n bytes: the header added,
\* rounded up to a multiple of 8, at least 16
BlockSizeFor(n) == MAX(2 * DSIZE, ALIGN(n + WSIZE))

\* malloc(n) in state s finds no free block that fits
NoFit(s, n) == find_fit(s, BlockSizeFor(n)) = NULL

\* the raw heap refuses the extension malloc(n) asks for
Refused(s, n) == mem_sbrk(s, MAX(BlockSizeFor(n), CHUNKSIZE)).p = SBRK_FAIL

\* request sizes of the failure cases
AskSizes ==
    (MallocSizes \cup {calloc_bytes(a[1], a[2]) : a \in CallocArgs}) \ {0}

\* C12: when malloc(n), n > 0, on an initialized heap finds no fitting free
\* block and the raw heap refuses the extension, malloc returns none and
\* the heap is as it was: extent, headers, footers, directory and links.
C12_MallocFailure ==
    Ready =>
        \A junk \in JunkWords, n \in AskSizes :
            LET s == Before(junk)
                r == malloc(s, n)
            IN  (NoFit(s, n) /\ Refused(s, n)) => (r.p = NULL /\ r.s = s)

\* a failing malloc on a heap that has a free block, too small for it
C12_Witness ==
    /\ Ready
    /\ FreeBlocks # {}
    /\ \E n \in AskSizes :
          NoFit(Cur, n) /\ Refused(Cur, n) /\ malloc(Cur, n).p = NULL

\* C13: when the allocation inside calloc(k, n) fails because the raw heap
\* refuses to extend, calloc returns none and stores nothing: no byte of
\* the heap changes and nothing is stored through the null pointer.
C13_CallocFailureIsQuiet ==
    Ready =>
        \A junk \in JunkWords, a \in CallocArgs :
            LET s == Before(junk)
                r == calloc(s, a[1], a[2])
                bytes == calloc_bytes(a[1], a[2])
            IN  (bytes > 0 /\ NoFit(s, bytes) /\ Refused(s, bytes))
                    => (r.p = NULL /\ ~r.crash /\ r.s = s)

\* the nodes of free list i of state s
ListOf(s, i) == ListFrom(s, SlotGet(s, s.sls + i * DSIZE), MaxBlocks + 1)

\* the blocks linked in the free lists of state s
NodesOf(s) == UNION {Range(ListOf(s, i)) : i \in Lists}

\* the words of the payload of the block at bp in state s
PayloadWords(s, bp) ==
    [i \in 1 .. (GET_SIZE(s, HDRP(bp)) - WSIZE) \div WSIZE |->
        GET(s, bp + WSIZE * (i - 1))]

\* C14: when realloc(p, n), p held and n > 0, cannot allocate the new block,
\* it returns none and p's block is as it was: allocated, of the same size,
\* with the same contents, in no free list.
C14_ReallocFailure ==
    Ready =>
        \A junk \in JunkWords, p \in Live, n \in AskSizes :
            LET s == Before(junk)
                r == realloc(s, p, n)
            IN  (NoFit(s, n) /\ Refused(s, n)) =>
                    /\ r.p = NULL
                    /\ GET_ALLOC(r.s, HDRP(p)) = 1
                    /\ GET_SIZE(r.s, HDRP(p)) = GET_SIZE(s, HDRP(p))
                    /\ PayloadWords(r.s, p) = PayloadWords(s, p)
                    /\ p \notin NodesOf(r.s)

\* a failing realloc of a held block on a heap that has a free block
C14_Witness ==
    /\ Ready
    /\ FreeBlocks # {}
    /\ \E p \in Live, n \in AskSizes :
          NoFit(Cur, n) /\ Refused(Cur, n) /\ realloc(Cur, p, n).p = NULL

\* the bytes a caller may use in the block at bp of state s: an allocated
\* block has a header and no footer
payload_size(s, bp) == GET_SIZE(s, HDRP(bp)) - WSIZE

\* the free blocks of state s
FreeBlocksOf(s) == {bp \in Range(BlocksOf(s)) : GET_ALLOC(s, HDRP(bp)) = 0}

\* the allocated blocks of state s
AllocBlocksOf(s) == {bp \in Range(BlocksOf(s)) : GET_ALLOC(s, HDRP(bp)) = 1}

ReallocSizes == {1, 12, 13, 16, 460}

\* the smaller of the request and the payload of the block at bp
MinPayload(s, bp, n) == IF n < payload_size(s, bp) THEN n ELSE payload_size(s, bp)

\* C31: realloc(p, n) copies exactly min(n, payload_size(p)) bytes from p to
\* the new block, so it reads no byte beyond p's payload: the bytes it reads
\* end before the header of the block that follows p.
C31_ReallocCopiesPayload ==
    Ready =>
        \A junk \in JunkWords, p \in Live, n \in ReallocSizes :
            \A m \in {malloc(Before(junk), n)} :
                m.p # NULL =>
                    /\ realloc_oldsize(m.s, p, n) = MinPayload(m.s, p, n)
                    /\ p + realloc_oldsize(m.s, p, n) <= HDRP(NEXT_BLKP(m.s, p))

\* pointers free must ignore: the null pointer, an address below the heap,
\* the address one past the heap, an address above the heap
OutPtrs == {NULL, 0 - DSIZE, brk, OutPtr}

\* C16: free(p) with p null or outside the bounds of the heap changes
\* nothing: no header, footer, link or directory slot, and no global.
C16_FreeOutside ==
    \A junk \in JunkWords, p \in OutPtrs : free(Before(junk), p) = Before(junk)

\* free of the address one past a heap with a held and a free block
C16_Witness ==
    /\ Ready
    /\ Live # {}
    /\ FreeBlocks # {}
    /\ free(Cur, brk) = Cur

(* ------------------------ the shape of any heap ----------------------- *)
\* the blocks of state s run up to the epilogue header in the last word of
\* the heap, of size 0 and allocated
EndsOnEpilogue(s) ==
    /\ Len(BlocksOf(s)) >= 1
    /\ HDRP(WalkEnd(s)) = s.brk - WSIZE
    /\ GET_SIZE(s, s.brk - WSIZE) = 0
    /\ GET_ALLOC(s, s.brk - WSIZE) = 1

\* sizes, alignment, footers, prev-alloc bits and merging of the blocks of s
BlocksOK(s) ==
    LET w == BlocksOf(s)
    IN  /\ \A bp \in Range(w) :
              /\ GET_SIZE(s, HDRP(bp)) % DSIZE = 0
              /\ GET_SIZE(s, HDRP(bp)) >= 2 * DSIZE
              /\ bp % DSIZE = 0
        /\ \A bp \in FreeBlocksOf(s) :
              GET(s, FTRP(s, bp)) = PACK(GET_SIZE(s, HDRP(bp)), 0)
        /\ \A bp \in Range(HeapWalk(s)) :
              GET_PREV_ALLOC(s, NEXT_BLKP(s, bp)) = 2 * GET_ALLOC(s, HDRP(bp))
        /\ \A i \in 1 .. Len(w) - 1 :
              GET_ALLOC(s, HDRP(w[i])) = 1 \/ GET_ALLOC(s, HDRP(w[i + 1])) = 1

\* the lists of s are chains that hold the free blocks of s, each once and
\* in the list of its size
ListsOK(s) ==
    /\ NodesOf(s) = FreeBlocksOf(s)
    /\ \A i \in Lists :
          LET l == ListOf(s, i)
          IN  /\ Len(l) <= MaxBlocks
              /\ Cardinality(Range(l)) = Len(l)
              /\ \A bp \in Range(l) : get_seg_index(GET_SIZE(s, HDRP(bp))) = i
              /\ l # << >> => GET_PREV(s, l[1]) = 0
              /\ \A k \in 1 .. Len(l) - 1 : GET_PREV(s, l[k + 1]) = REAL_OFFSET(l[k])
    /\ \A i \in Lists, j \in Lists :
          i # j => Range(ListOf(s, i)) \cap Range(ListOf(s, j)) = {}

HeapOK(s) == EndsOnEpilogue(s) /\ BlocksOK(s) /\ ListsOK(s)

\* address, size and allocated bit of the blocks of s, in address order
BlockSeq(s) ==
    [i \in DOMAIN BlocksOf(s) |->
        <<BlocksOf(s)[i], GET_SIZE(s, HDRP(BlocksOf(s)[i])),
          GET_ALLOC(s, HDRP(BlocksOf(s)[i]))>>]

\* malloc(n), the client storing its data, free of the pointer returned
MallocFree(s, n) ==
    free(ClientFill(malloc(s, n).s, malloc(s, n).p, n, 0), malloc(s, n).p)

ByteAt(s, a) == (GET(s, a - (a % WSIZE)) \div (256 ^ (a % WSIZE))) % 256

\* the number n is at least the number the bytes d stand for
AtLeast(n, d) ==
    /\ \A i \in 5 .. Len(d) : d[i] = 0
    /\ d[4] < 128
    /\ n >= ToInt(d)

\* calloc(k, n) returned q in state t: an allocated block with a payload of
\* at least k * n bytes, the first k * n of them zero
Zeroed(t, q, k, n) ==
    /\ q \in AllocBlocksOf(t)
    /\ AtLeast(payload_size(t, q), Product(k, n))
    /\ \A i \in 0 .. ToInt(Product(k, n)) - 1 : ByteAt(t, q + i) = 0

\* C19: on success calloc(k, n) returns an allocated block whose payload is
\* at least k * n bytes and whose first k * n bytes are zero, whatever the
\* block held before.
C19_CallocZeroed ==
    \A junk \in JunkWords, a \in CallocArgs :
        LET r == calloc(Before(junk), a[1], a[2])
        IN  r.p # NULL => Zeroed(r.s, r.p, a[1], a[2])

\* C20: realloc(NULL, n) gives the result and the heap of malloc(n);
\* realloc(p, 0) with p held returns none and gives the heap of free(p).
C20_ReallocEdges ==
    \A junk \in JunkWords :
        LET s == Before(junk)
        IN  /\ \A n \in AskSizes \cup {0} : realloc(s, NULL, n) = malloc(s, n)
            /\ \A p \in Live : realloc(s, p, 0) = [s |-> free(s, p), p |-> NULL]

\* realloc(NULL, 460) hands out a block, and realloc(p, 0) merges the block
\* of p with a free neighbour
C20_Witness ==
    /\ Ready
    /\ realloc(Cur, NULL, 460).p # NULL
    /\ \E p \in Live :
          /\ realloc(Cur, p, 0).p = NULL
          /\ Cardinality(FreeBlocksOf(realloc(Cur, p, 0).s)) = Cardinality(FreeBlocks)
          /\ p \in AllocBlocksOf(Cur) /\ p \notin AllocBlocksOf(realloc(Cur, p, 0).s)

(* --------------------------- a second mm_init ------------------------- *)
\* the bytes mm_init takes from the raw heap: the directory, the padding,
\* the prologue, the epilogue header and the first free block
InitSize == SEG_NUM * DSIZE + 4 * WSIZE + CHUNKSIZE

\* the raw heap of state s can serve one more mm_init
RoomForInit(s) == s.brk + InitSize <= MAX_HEAP(s)

\* C21 (as stated): once a first mm_init has succeeded, a second mm_init
\* returns 0 and leaves the heap extent, the directory, the prologue, the
\* blocks and the free lists as they were.
C21_InitIdempotent ==
    Ready =>
        \A junk \in JunkWords :
            LET s == Before(junk)
                r == mm_init(s)
            IN  RoomForInit(s) => (r.rc = 0 /\ r.s = s)

\* C21 (amended): a second mm_init on a raw heap with room for it returns 0
\* and builds a second heap after the first: brk grows by InitSize,
\* heap_listp moves to a new prologue followed by one free block of
\* CHUNKSIZE bytes, which becomes the head of its list in the directory at
\* BASEADDR; every other word of the old heap stays as it was.
C21_SecondInitAppends ==
    Ready =>
        \A junk \in JunkWords :
            LET s == Before(junk)
                r == mm_init(s)
                slot == get_seg_listp(s, CHUNKSIZE)
                head == SlotGet(s, slot)
            IN  RoomForInit(s) =>
                  /\ r.rc = 0
                  /\ r.s.brk = s.brk + InitSize
                  /\ r.s.hl = s.brk + SEG_NUM * DSIZE + 2 * WSIZE
                  /\ r.s.sls = s.sls
                  /\ BlocksOf(r.s) = <<r.s.hl + DSIZE>>
                  /\ GET(r.s, HDRP(r.s.hl + DSIZE)) = PACK(CHUNKSIZE, 2)
                  /\ SlotGet(r.s, slot) = r.s.hl + DSIZE
                  /\ \A w \in 0 .. (s.brk \div WSIZE) - 1 :
                        (/\ w * WSIZE # slot
                         /\ w * WSIZE # slot + WSIZE
                         /\ w * WSIZE # head)
                            => GET(r.s, w * WSIZE) = GET(s, w * WSIZE)

\* a second mm_init on a heap with a held block and a free block
C21_Witness ==
    /\ Ready
    /\ Live # {}
    /\ FreeBlocks # {}
    /\ RoomForInit(Cur)
    /\ mm_init(Cur).rc = 0
    /\ mm_init(Cur).s.brk = MaxHeap

(* ------------------------------ find_fit ------------------------------ *)
\* the free blocks of the heap walk that can hold asize bytes
Fits(s, asize) == {q \in FreeBlocksOf(s) : GET_SIZE(s, HDRP(q)) >= asize}

\* the classes at or above the class of asize whose list has a node that
\* can hold asize bytes
FitClasses(s, asize) ==
    {i \in get_seg_index(asize) .. SEG_NUM - 1 :
        \E k \in DOMAIN ListOf(s, i) : GET_SIZE(s, HDRP(ListOf(s, i)[k])) >= asize}

Least(S) == CHOOSE x \in S : \A y \in S : x <= y

\* the place in the list l of the first node of the given size
FirstOfSize(s, l, size) == Least({k \in DOMAIN l : GET_SIZE(s, HDRP(l[k])) = size})

\* the place in the list l of the first node that can hold asize bytes
FirstHolding(s, l, asize) == Least({k \in DOMAIN l : GET_SIZE(s, HDRP(l[k])) >= asize})

\* adjusted sizes of the best-fit branch (960 and more)
LargeAsks == {960, 968, 1000, 1008, 1400, 1408, 1464, 1472, 1864, 1872, 2400}

\* adjusted sizes of the first-fit branch (less than 960)
SmallAsks == {16, 24, 32, 40, 256, 424, 432, 440, 448, 456, 464, 472, 480, 904, 912, 928, 936, 952}

C27_FirstFit ==
    Ready =>
        \A junk \in JunkWords : \A s \in {Before(junk)} : \A asize \in SmallAsks :
            FitClasses(s, asize) # {} =>
                \E l \in {ListOf(s, Least(FitClasses(s, asize)))} :
                    find_fit(s, asize) = l[FirstHolding(s, l, asize)]

\* the node returned is not the smallest node of its list that can hold the
\* request, and for some request the lists below the node's were passed over
C27_Witness ==
    /\ Ready
    /\ \E asize \in SmallAsks :
       \E l \in {ListOf(Cur, get_seg_index(GET_SIZE(Cur, HDRP(find_fit(Cur, asize)))))} :
            /\ find_fit(Cur, asize) \in Range(l)
            /\ \E k \in DOMAIN l :
                /\ GET_SIZE(Cur, HDRP(l[k])) >= asize
                /\ GET_SIZE(Cur, HDRP(l[k])) < GET_SIZE(Cur, HDRP(find_fit(Cur, asize)))
    /\ \E asize \in SmallAsks :
        /\ find_fit(Cur, asize) # NULL
        /\ get_seg_index(asize) < get_seg_index(GET_SIZE(Cur, HDRP(find_fit(Cur, asize))))

\* request sizes given to malloc in C28
FitRequests == {12, 460, 990, 1396, 1460, 2000}

\* C28: find_fit returns NULL only if no free block of the heap can hold the
\* adjusted size, and malloc moves the break only then.
C28_NoneOnlyIfNoFit ==
    Ready =>
        \A junk \in JunkWords : \A s \in {Before(junk)} :
            /\ \A asize \in LargeAsks \cup SmallAsks :
                    find_fit(s, asize) = NULL => Fits(s, asize) = {}
            /\ \A n \in FitRequests :
                    malloc(s, n).s.brk # s.brk => Fits(s, BlockSizeFor(n)) = {}

\* no list at or above the class of the request has a node that can hold it,
\* while the heap has free blocks, and malloc extends the heap; and a request
\* whose own list is empty is served from a higher list without extension
C28_Witness ==
    /\ Ready
    /\ \E n \in FitRequests :
        /\ find_fit(Cur, BlockSizeFor(n)) = NULL
        /\ Cardinality(FreeBlocksOf(Cur)) >= 2
        /\ malloc(Cur, n).s.brk > brk
    /\ \E n \in FitRequests :
        /\ ListOf(Cur, get_seg_index(BlockSizeFor(n))) = << >>
        /\ find_fit(Cur, BlockSizeFor(n)) # NULL
        /\ malloc(Cur, n).s.brk = brk

(* -------------------------------- place ------------------------------- *)
\* adjusted sizes given to place
PlaceAsks == {16, 24, 32, 440, 448, 456, 464, 904, 912, 920, 928}

\* the sequence w with x put in after its element y
InsertAfter(w, y, x) ==
    LET k == CHOOSE i \in DOMAIN w : w[i] = y
    IN  SubSeq(w, 1, k) \o <<x>> \o SubSeq(w, k + 1, Len(w))

\* what place(ptr, asize) makes of the state s, r being the state after it
PlaceOK(s, r, ptr, asize) ==
    LET csize == GET_SIZE(s, HDRP(ptr))
        rest == csize - asize
        nxt == ptr + csize
    IN  /\ GET_ALLOC(r, HDRP(ptr)) = 1
        /\ GET_PREV_ALLOC(r, ptr) = GET_PREV_ALLOC(s, ptr)
        /\ ptr \notin NodesOf(r)
        /\ \A i \in Lists : \A k \in DOMAIN ListOf(r, i) :
                get_seg_index(GET_SIZE(r, HDRP(ListOf(r, i)[k]))) = i
        /\ r.brk = s.brk /\ r.hl = s.hl /\ r.sls = s.sls /\ r.fault = s.fault
        /\ IF rest >= 2 * DSIZE
           THEN /\ GET_SIZE(r, HDRP(ptr)) = asize
                /\ GET(r, HDRP(ptr + asize)) = PACK(rest, 2)
                /\ GET(r, FTRP(r, ptr + asize)) = PACK(rest, 0)
                /\ FTRP(r, ptr + asize) = nxt - DSIZE
                /\ BlocksOf(r) = InsertAfter(BlocksOf(s), ptr, ptr + asize)
                /\ NodesOf(r) = (NodesOf(s) \ {ptr}) \cup {ptr + asize}
                /\ ptr + asize \in Range(ListOf(r, get_seg_index(rest)))
                /\ GET(r, HDRP(nxt)) = GET(s, HDRP(nxt))
           ELSE /\ GET_SIZE(r, HDRP(ptr)) = csize
                /\ BlocksOf(r) = BlocksOf(s)
                /\ NodesOf(r) = NodesOf(s) \ {ptr}
                /\ GET_PREV_ALLOC(r, nxt) = 2
                /\ GET_SIZE(r, HDRP(nxt)) = GET_SIZE(s, HDRP(nxt))
                /\ GET_ALLOC(r, HDRP(nxt)) = GET_ALLOC(s, HDRP(nxt))

\* C29: place(ptr, asize) on a free block of csize >= asize bytes: when
\* csize - asize >= 16 the low asize bytes become an allocated block at ptr
\* with the prev-alloc bit the block had, and the other bytes one free block
\* with prev-alloc bit 1 (header and footer) in the list of its class;
\* otherwise the whole block becomes allocated and the prev-alloc bit of the
\* next header is set; in both cases ptr has left its free list.
C29_Place ==
    Ready =>
        \A junk \in JunkWords : \A s \in {Before(junk)} :
            \A ptr \in FreeBlocksOf(s) : \A asize \in PlaceAsks :
                asize <= GET_SIZE(s, HDRP(ptr)) =>
                    PlaceOK(s, place(s, ptr, asize), ptr, asize)

\* a free block in the middle of its list, placed with a remainder of 8 bytes
\* (no split) and with a remainder that is split off
C29_Witness ==
    /\ Ready
    /\ \E ptr \in FreeBlocks : \E a1, a2 \in PlaceAsks :
        /\ GET_SIZE(Cur, HDRP(ptr)) - a1 = DSIZE
        /\ GET_SIZE(place(Cur, ptr, a1), HDRP(ptr)) = a1 + DSIZE
        /\ GET_SIZE(Cur, HDRP(ptr)) - a2 >= 2 * DSIZE
        /\ GET_SIZE(place(Cur, ptr, a2), HDRP(ptr)) = a2
        /\ GET_ALLOC(Cur, HDRP(NEXT_BLKP(Cur, ptr))) = 1
        /\ NEXT_BLKP(Cur, ptr) < brk
    /\ \E ptr \in FreeBlocks :
        /\ GET_PREV(Cur, ptr) # 0
        /\ ptr \notin NodesOf(place(Cur, ptr, 2 * DSIZE))

(* --------------------------- the block size --------------------------- *)
\* the sum size + WSIZE + (DSIZE - 1) of a request of 2^63 bytes or more
\* passes 2^64
Wraps(n) == n < 0 /\ n + WSIZE + (DSIZE - 1) >= 0

\* requests given to malloc: small ones, and 2^64 - 1 and 2^64 - 5
SizeRequests == {1, 8, 9, 12, 13, 18, 20, 460, -1, -5}

\* the block that a successful malloc(n) returns in state r is allocated and
\* its size is at least max(16, n + 4 rounded up to a multiple of 8) and less
\* than 16 more: for a request that wraps that number is 2^64 or more, above
\* every size a header holds
SizedFor(r, p, n) ==
    /\ GET_ALLOC(r, HDRP(p)) = 1
    /\ ~Wraps(n)
    /\ BlockSizeFor(n) <= GET_SIZE(r, HDRP(p))
    /\ GET_SIZE(r, HDRP(p)) < BlockSizeFor(n) + 2 * DSIZE

\* C30: a successful malloc(n), n > 0, returns an allocated block of size s
\* with A <= s < A + 16 for A = max(16, n + 4 rounded up to a multiple
\* of 8); malloc(1) returns a block of 16 bytes; and the adjusted size the
\* code computes is A for every n.
C30_BlockSize ==
    Ready =>
        \A junk \in JunkWords : \A s \in {Before(junk)} : \A n \in SizeRequests :
            \E r \in {malloc(s, n)} :
                /\ ~Wraps(n) /\ adjusted_size(n) = BlockSizeFor(n)
                /\ r.p # NULL => SizedFor(r.s, r.p, n)
                /\ (r.p # NULL /\ n = 1) => GET_SIZE(r.s, HDRP(r.p)) = 2 * DSIZE

(* ======================= the proxy and its cache ====================== *)
\* A cache block is blocks[k], k its address; 0 is the null pointer.
\* uris the browsers ask for, and sizes of the objects the servers send
Uris == {1}
ObjSizes == {102399, 102400}

(* ------------------------------ cache.c ------------------------------- *)
RECURSIVE ListWalk(_, _, _)
\* the blocks met from node on by following next
ListWalk(bs, node, fuel) ==
    IF node = 0 \/ fuel = 0 THEN << >>
    ELSE <<node>> \o ListWalk(bs, bs[node].next, fuel - 1)

\* the loop of find_cache: the first block with the uri, or 0
find_cache_search(ch, bs, uri) ==
    LET w == ListWalk(bs, ch.head, Len(bs) + 1)
        at == {k \in DOMAIN w : bs[w[k]].uri = uri}
    IN  IF at = {} THEN 0 ELSE w[CHOOSE k \in at : \A j \in at : k <= j]

RECURSIVE OldestFrom(_, _, _, _)
\* the loop of evict from cur on: old is the oldest block met so far
OldestFrom(bs, cur, old, fuel) ==
    IF cur = 0 \/ fuel = 0 THEN old
    ELSE OldestFrom(bs, bs[cur].next,
                    IF old = 0 \/ bs[cur].age < bs[old].age THEN cur ELSE old,
                    fuel - 1)

\* evict up to its calls of Free: the oldest block is unlinked
evict_unlink(ch, bs) ==
    LET old == OldestFrom(bs, ch.head, 0, Len(bs) + 1)
        prev == bs[old].prev
        next == bs[old].next
    IN  IF prev # 0 THEN [cache |-> ch, blocks |-> [bs EXCEPT ![prev].next = next]]
        ELSE IF next # 0 THEN [cache |-> ch, blocks |-> [bs EXCEPT ![next].prev = prev]]
        ELSE [cache |-> [ch EXCEPT !.head = 0], blocks |-> bs]

\* evict: null is TRUE when it goes on to Free(cur->uri) with cur == NULL
evict(ch, bs) ==
    IF ch.head = 0 THEN [cache |-> ch, blocks |-> bs, null |-> FALSE]
    ELSE [cache |-> evict_unlink(ch, bs).cache,
          blocks |-> evict_unlink(ch, bs).blocks, null |-> TRUE]

\* cache_insert after its eviction loop: a new block at the head
cache_insert_node(ch, bs, uri, size, age) ==
    LET node == Len(bs) + 1
        new == [next |-> ch.head, prev |-> 0, uri |-> uri, size |-> size, age |-> age]
        bs1 == Append(bs, new)
    IN  [cache |-> [head |-> node, size |-> ch.size + size],
         blocks |-> IF ch.head = 0 THEN bs1 ELSE [bs1 EXCEPT ![ch.head].prev = node]]

(* ------------------------------ proxy.c ------------------------------- *)
\* the tests of read_count in grab_read_lock and realease_read_lock
\* grab_read_lock never taking write_lock
first_reader_Never(count) == FALSE

first_reader(count) == count = 1
last_reader(count) == count = 0

Goto(t, label) == thr' = [thr EXCEPT ![t].pc = label]

\* main accepts a connection and starts a thread; handle_request reads the
\* request line for uri and calls read_cache
Accept(t, uri) ==
    /\ ~killed
    /\ thr[t].pc = "accept"
    /\ thr' = [thr EXCEPT ![t] = [pc |-> "grab_P", uri |-> uri, node |-> 0,
                                  hit |-> FALSE, size |-> 0]]
    /\ UNCHANGED <<read_count, read_lock, write_lock, cache, blocks, now, killed>>
    /\ UNCHANGED <<alloc_vars, shell_vars, class_vars>>

\* grab_read_lock: P(&read_lock)
GrabP(t) ==
    /\ ~killed
    /\ thr[t].pc = "grab_P"
    /\ read_lock > 0
    /\ read_lock' = read_lock - 1
    /\ Goto(t, "grab_count")
    /\ UNCHANGED <<read_count, write_lock, cache, blocks, now, killed>>
    /\ UNCHANGED <<alloc_vars, shell_vars, class_vars>>

\* grab_read_lock: read_count++ and the test read_count == 1
GrabCount(t) ==
    /\ ~killed
    /\ thr[t].pc = "grab_count"
    /\ read_count' = read_count + 1
    /\ Goto(t, IF first_reader(read_count + 1) THEN "grab_W" ELSE "grab_V")
    /\ UNCHANGED <<read_lock, write_lock, cache, blocks, now, killed>>
    /\ UNCHANGED <<alloc_vars, shell_vars, class_vars>>

\* grab_read_lock: P(&write_lock)
GrabW(t) ==
    /\ ~killed
    /\ thr[t].pc = "grab_W"
    /\ write_lock > 0
    /\ write_lock' = write_lock - 1
    /\ Goto(t, "grab_V")
    /\ UNCHANGED <<read_count, read_lock, cache, blocks, now, killed>>
    /\ UNCHANGED <<alloc_vars, shell_vars, class_vars>>

\* grab_read_lock: V(&read_lock)
GrabV(t) ==
    /\ ~killed
    /\ thr[t].pc = "grab_V"
    /\ read_lock' = read_lock + 1
    /\ Goto(t, "find")
    /\ UNCHANGED <<read_count, write_lock, cache, blocks, now, killed>>
    /\ UNCHANGED <<alloc_vars, shell_vars, class_vars>>

\* read_cache: find_cache up to the end of its loop
Find(t) ==
    /\ ~killed
    /\ thr[t].pc = "find"
    /\ \E node \in {find_cache_search(cache, blocks, thr[t].uri)} :
        thr' = [thr EXCEPT ![t].node = node,
                           ![t].pc = IF node = 0 THEN "rel_P" ELSE "touch"]
    /\ UNCHANGED <<read_count, read_lock, write_lock, cache, blocks, now, killed>>
    /\ UNCHANGED <<alloc_vars, shell_vars, class_vars>>

\* find_cache: node->age = time(NULL)
Touch(t) ==
    /\ ~killed
    /\ thr[t].pc = "touch"
    /\ blocks' = [blocks EXCEPT ![thr[t].node].age = now]
    /\ Goto(t, "send")
    /\ UNCHANGED <<read_count, read_lock, write_lock, cache, now, killed>>
    /\ UNCHANGED <<alloc_vars, shell_vars, class_vars>>

\* read_cache: rio_writen of the content to the browser succeeds or fails
Send(t, ok) ==
    /\ ~killed
    /\ thr[t].pc = "send"
    /\ thr' = [thr EXCEPT ![t].hit = ok, ![t].pc = "rel_P"]
    /\ UNCHANGED <<read_count, read_lock, write_lock, cache, blocks, now, killed>>
    /\ UNCHANGED <<alloc_vars, shell_vars, class_vars>>

\* realease_read_lock: P(&read_lock)
RelP(t) ==
    /\ ~killed
    /\ thr[t].pc = "rel_P"
    /\ read_lock > 0
    /\ read_lock' = read_lock - 1
    /\ Goto(t, "rel_count")
    /\ UNCHANGED <<read_count, write_lock, cache, blocks, now, killed>>
    /\ UNCHANGED <<alloc_vars, shell_vars, class_vars>>

\* realease_read_lock: read_count-- and the test read_count == 0
RelCount(t) ==
    /\ ~killed
    /\ thr[t].pc = "rel_count"
    /\ read_count' = read_count - 1
    /\ Goto(t, IF last_reader(read_count - 1) THEN "rel_W" ELSE "rel_V")
    /\ UNCHANGED <<read_lock, write_lock, cache, blocks, now, killed>>
    /\ UNCHANGED <<alloc_vars, shell_vars, class_vars>>

\* realease_read_lock: V(&write_lock)
RelW(t) ==
    /\ ~killed
    /\ thr[t].pc = "rel_W"
    /\ write_lock' = write_lock + 1
    /\ Goto(t, "rel_V")
    /\ UNCHANGED <<read_count, read_lock, cache, blocks, now, killed>>
    /\ UNCHANGED <<alloc_vars, shell_vars, class_vars>>

\* realease_read_lock: V(&read_lock); read_cache returns 1 on a hit and the
\* thread ends, or 0 and handle_request goes on to send_request
RelV(t) ==
    /\ ~killed
    /\ thr[t].pc = "rel_V"
    /\ read_lock' = read_lock + 1
    /\ Goto(t, IF thr[t].hit THEN "accept" ELSE "fetch")
    /\ UNCHANGED <<read_count, write_lock, cache, blocks, now, killed>>
    /\ UNCHANGED <<alloc_vars, shell_vars, class_vars>>

\* send_request: the response of n bytes is read, n < 0 for a read error;
\* an object below MAX_OBJECT_SIZE goes to write_cache
Fetch(t, n) ==
    /\ ~killed
    /\ thr[t].pc = "fetch"
    /\ thr' = [thr EXCEPT ![t].size = IF n >= 0 /\ n < MAX_OBJECT_SIZE THEN n ELSE 0,
                          ![t].pc = IF n >= 0 /\ n < MAX_OBJECT_SIZE
                                    THEN "write_P" ELSE "accept"]
    /\ UNCHANGED <<read_count, read_lock, write_lock, cache, blocks, now, killed>>
    /\ UNCHANGED <<alloc_vars, shell_vars, class_vars>>

\* write_cache: P(&write_lock)
WriteP(t) ==
    /\ ~killed
    /\ thr[t].pc = "write_P"
    /\ write_lock > 0
    /\ write_lock' = write_lock - 1
    /\ Goto(t, "insert_test")
    /\ UNCHANGED <<read_count, read_lock, cache, blocks, now, killed>>
    /\ UNCHANGED <<alloc_vars, shell_vars, class_vars>>

\* cache_insert: total_size = c->size + size and the test of the while loop
InsertTest(t) ==
    /\ ~killed
    /\ thr[t].pc = "insert_test"
    /\ Goto(t, IF cache.size + thr[t].size > MAX_CACHE_SIZE THEN "evict" ELSE "insert_node")
    /\ UNCHANGED <<read_count, read_lock, write_lock, cache, blocks, now, killed>>
    /\ UNCHANGED <<alloc_vars, shell_vars, class_vars>>

\* cache_insert: evict(c).  The load of cur->uri through the null pointer is
\* undefined: the proxy is killed, or the load and the Free go through.
Evict(t) ==
    /\ ~killed
    /\ thr[t].pc = "evict"
    /\ \E r \in {evict(cache, blocks)} :
        /\ cache' = r.cache
        /\ blocks' = r.blocks
        /\ killed' \in (IF r.null THEN BOOLEAN ELSE {FALSE})
    /\ Goto(t, "insert_test")
    /\ UNCHANGED <<read_count, read_lock, write_lock, now>>
    /\ UNCHANGED <<alloc_vars, shell_vars, class_vars>>

\* cache_insert: the new block
InsertNode(t) ==
    /\ ~killed
    /\ thr[t].pc = "insert_node"
    /\ \E r \in {cache_insert_node(cache, blocks, thr[t].uri, thr[t].size, now)} :
        /\ cache' = r.cache
        /\ blocks' = r.blocks
    /\ Goto(t, "write_V")
    /\ UNCHANGED <<read_count, read_lock, write_lock, now, killed>>
    /\ UNCHANGED <<alloc_vars, shell_vars, class_vars>>

\* write_cache: V(&write_lock); the thread ends
WriteV(t) ==
    /\ ~killed
    /\ thr[t].pc = "write_V"
    /\ write_lock' = write_lock + 1
    /\ Goto(t, "accept")
    /\ UNCHANGED <<read_count, read_lock, cache, blocks, now, killed>>
    /\ UNCHANGED <<alloc_vars, shell_vars, class_vars>>

\* a second passes
Tick ==
    /\ ~killed
    /\ now < MaxTime
    /\ now' = now + 1
    /\ UNCHANGED <<thr, read_count, read_lock, write_lock, cache, blocks, killed>>
    /\ UNCHANGED <<alloc_vars, shell_vars, class_vars>>

\* the steps of thread t after its request has come in
Step(t) ==
    \/ GrabP(t) \/ GrabCount(t) \/ GrabW(t) \/ GrabV(t)
    \/ Find(t) \/ Touch(t) \/ \E ok \in BOOLEAN : Send(t, ok)
    \/ RelP(t) \/ RelCount(t) \/ RelW(t) \/ RelV(t)
    \/ \E n \in ObjSizes \cup {-1} : Fetch(t, n)
    \/ WriteP(t) \/ InsertTest(t) \/ Evict(t) \/ InsertNode(t) \/ WriteV(t)

ProxyInit ==
    /\ mem = << >>
    /\ brk = 0
    /\ heap_listp = NULL
    /\ seg_list_start = NULL
    /\ req = [q \in {} |-> 0]
    /\ crashed = FALSE
    /\ fault = FALSE
    /\ clash = FALSE
    /\ client = "none"
    /\ ProxyStart
    /\ ShellStart
    /\ ClassStart

ProxyNext ==
    \/ \E t \in Threads, uri \in Uris : Accept(t, uri)
    \/ \E t \in Threads : Step(t)
    \/ Tick

ProxySpec == ProxyInit /\ [][ProxyNext]_vars


(* ------------------------- the locks of the proxy --------------------- *)
\* thread t is in read_cache between grab_read_lock and realease_read_lock
InFind(t) == thr[t].pc \in {"find", "touch", "send"}

\* thread t is in write_cache between P(&write_lock) and V(&write_lock)
InInsert(t) == thr[t].pc \in {"insert_test", "evict", "insert_node"}

\* thread t has a request in hand
Busy(t) == thr[t].pc # "accept"

\* thread t is blocked in P on a semaphore whose value is 0
Waits(t) ==
    \/ thr[t].pc \in {"grab_P", "rel_P"} /\ read_lock = 0
    \/ thr[t].pc \in {"grab_W", "write_P"} /\ write_lock = 0

\* C22: a thread inside cache_insert never overlaps a thread inside
\* find_cache nor another thread inside cache_insert; and the locks never
\* deadlock: while the proxy lives and some thread has a request in hand,
\* some such thread is not blocked in P.
C22_ReadWriteLock ==
    /\ \A t1, t2 \in Threads :
        (t1 # t2 /\ InInsert(t1)) => (~InFind(t2) /\ ~InInsert(t2))
    /\ (~killed /\ \E t \in Threads : Busy(t)) =>
            \E t \in Threads : Busy(t) /\ ~Waits(t)

\* every thread is inside find_cache at once, each counted in read_count,
\* with write_lock taken by the first of them
C22_Witness ==
    /\ \A t \in Threads : InFind(t)
    /\ read_count = MaxThreads
    /\ write_lock = 0
    /\ blocks # << >>

(* --------------------------- the cache -------------------------------- *)
\* some thread is inside the read section and none inside cache_insert
OnlyReaders ==
    /\ \E t \in Threads : InFind(t)
    /\ \A t \in Threads : ~InInsert(t)

\* C23: read_cache does not modify the cache: while threads hold only the
\* read lock no field of the cache list or of a block is written, and no two
\* readers are about to write the same field of the same block.
C23_ReadersDoNotWrite ==
    [][/\ OnlyReaders => UNCHANGED <<cache, blocks>>
       /\ \A t1, t2 \in Threads :
            (t1 # t2 /\ thr[t1].pc = "touch" /\ thr[t2].pc = "touch")
                => thr[t1].node # thr[t2].node]_vars

RECURSIVE SumOf(_, _, _)
\* the sum of the sizes of the blocks of the walk w from place i on
SumOf(bs, w, i) == IF i > Len(w) THEN 0 ELSE bs[w[i]].size + SumOf(bs, w, i + 1)

\* the blocks reached from c->head
Cached == ListWalk(blocks, cache.head, Len(blocks) + 1)

\* C24: every cache_insert of an object below MAX_OBJECT_SIZE ends: no call
\* kills the proxy, and each round of its loop either makes room for the
\* object, or lowers c->size, or takes a block off the list; and c->size
\* and the sizes of the blocks reached from c->head add up to at most
\* MAX_CACHE_SIZE.
C24_InsertEndsWithinLimit ==
    [][/\ ~killed'
       /\ cache'.size <= MAX_CACHE_SIZE
       /\ SumOf(blocks', Cached', 1) <= MAX_CACHE_SIZE
       /\ \A t \in Threads :
            (thr[t].pc = "evict" /\ thr'[t].pc = "insert_test") =>
                \/ cache'.size + thr[t].size <= MAX_CACHE_SIZE
                \/ cache'.size < cache.size
                \/ Len(Cached') < Len(Cached)]_vars


(* ======================================================================== *)
(* The shell: tsh.c                                                         *)
(* ======================================================================== *)

Slots == 1 .. MAXJOBS

\* the commands typed at the prompt: fg and bg take %jid or a pid
JobArgs == {"jid", "pid"} \X Pids

\* a pointer into job_list is the index of the slot; 0 is the null pointer
NOJOB == 0

\* clearjob
clearjob == [pid |-> 0, jid |-> 0, state |-> UNDEF]

\* jid2pid: the pid of the first slot whose jid is jid, -1 if there is none
jid2pid(jl, jid) ==
    LET S == {i \in Slots : jl[i].jid = jid}
    IN  IF S = {} THEN -1 ELSE jl[Least(S)].pid

\* getjobpid: the first slot whose pid is pid, NULL if pid < 1 or none is
getjobpid(jl, pid) ==
    LET S == {i \in Slots : jl[i].pid = pid}
    IN  IF pid < 1 \/ S = {} THEN NOJOB ELSE Least(S)

\* fgpid: the pid of the first slot whose state is FG, 0 if there is none
fgpid(jl) ==
    LET S == {i \in Slots : jl[i].state = FG}
    IN  IF S = {} THEN 0 ELSE jl[Least(S)].pid

\* maxjid: the largest jid in the list
maxjid(jl) ==
    LET J == {jl[i].jid : i \in Slots}
    IN  CHOOSE m \in J \cup {0} : \A j \in J : j <= m

\* addjob: the first slot whose pid is 0 takes the job
addjob(jl, nj, pid, state) ==
    LET S == {i \in Slots : jl[i].pid = 0}
    IN  IF pid < 1 \/ S = {} THEN [jl |-> jl, nj |-> nj, ok |-> FALSE]
        ELSE [jl |-> [jl EXCEPT ![Least(S)] = [pid |-> pid, jid |-> nj, state |-> state]],
              nj |-> IF nj + 1 > MAXJOBS THEN 1 ELSE nj + 1,
              ok |-> TRUE]

\* deletejob_clear: the slot of pid cleared
deletejob_clear(jl, pid) == [jl EXCEPT ![getjobpid(jl, pid)] = clearjob]

\* deletejob: the slot whose pid is pid is cleared, nextjid follows maxjid
deletejob(jl, nj, pid) ==
    IF getjobpid(jl, pid) = NOJOB THEN [jl |-> jl, nj |-> nj]
    ELSE [jl |-> deletejob_clear(jl, pid),
          nj |-> maxjid(deletejob_clear(jl, pid)) + 1]

\* kill(-pid, sig) finds the process group while its leader has not been reaped
kill_ok(kd, pid) == pid \in Pids /\ kd[pid] \notin {"unborn", "reaped"}

\* what a child does on a signal: SIGCONT resumes a stopped child, SIGINT
\* ends a running one, SIGTSTP stops a running one ("stopping": stopped and
\* not yet reported by waitpid)
signalled(kd, pid, sig) ==
    IF sig = "CONT" /\ kd[pid] \in {"stopping", "stopped"} THEN [kd EXCEPT ![pid] = "running"]
    ELSE IF sig = "INT" /\ kd[pid] = "running" THEN [kd EXCEPT ![pid] = "zombie"]
    ELSE IF sig = "TSTP" /\ kd[pid] = "running" THEN [kd EXCEPT ![pid] = "stopping"]
    ELSE kd

\* the children waitpid(-1, &status, WNOHANG|WUNTRACED) has something to say of
Waitable(kd) == {p \in Pids : kd[p] \in {"zombie", "stopping"}}

RECURSIVE sigchld_loop(_, _, _)
\* sigchld_handler: the while loop. A child that ended is deleted from the
\* list, a child that stopped gets the state ST through the pointer that
\* getjobpid returns.
sigchld_loop(jl, nj, kd) ==
    IF Waitable(kd) = {} THEN [jl |-> jl, nj |-> nj, kd |-> kd, null |-> FALSE]
    ELSE IF kd[Least(Waitable(kd))] = "zombie"
    THEN sigchld_loop(deletejob(jl, nj, Least(Waitable(kd))).jl,
                      deletejob(jl, nj, Least(Waitable(kd))).nj,
                      [kd EXCEPT ![Least(Waitable(kd))] = "reaped"])
    ELSE IF getjobpid(jl, Least(Waitable(kd))) = NOJOB
    THEN [jl |-> jl, nj |-> nj, kd |-> kd, null |-> TRUE]
    ELSE sigchld_loop([jl EXCEPT ![getjobpid(jl, Least(Waitable(kd)))].state = ST], nj,
                      [kd EXCEPT ![Least(Waitable(kd))] = "stopped"])


\* the shell goes on to the statement at label
ShGoto(label) == [sh EXCEPT !.pc = label]

\* the shell is back in main, about to read the next command line
ShReturn == [pc |-> "prompt", cmd |-> "none", pid |-> 0, job |-> NOJOB]

\* the pid Fork returns: the kernel never gives out a pid twice in one run
NewPid == Least({p \in Pids : kids[p] = "unborn"})

\* non_builtin_process: the three signals are blocked, the child is forked and
\* added to the list; a background job is announced and the signals are
\* unblocked, a foreground job is waited for. When addjob fails the function
\* returns with the signals still blocked.
Launch(bg) ==
    /\ gone = "no"
    /\ sh.pc = "prompt"
    /\ \E p \in Pids : kids[p] = "unborn"
    /\ \E a \in {addjob(job_list, nextjid, NewPid, IF bg THEN BG ELSE FG)} :
        /\ job_list' = a.jl
        /\ nextjid' = a.nj
        /\ blocked' = (~a.ok \/ ~bg)
        /\ sh' = IF a.ok /\ ~bg THEN [ShReturn EXCEPT !.pc = "wait", !.cmd = "run"]
                 ELSE ShReturn
    /\ kids' = [kids EXCEPT ![NewPid] = "running"]
    /\ UNCHANGED <<pending, gone>>
    /\ UNCHANGED <<alloc_vars, proxy_vars, class_vars>>

\* builtin_fg, builtin_bg: the argument is turned into a pid; the builtin
\* returns when the pid is not positive
Builtin(cmd, arg) ==
    /\ gone = "no"
    /\ sh.pc = "prompt"
    /\ \E pid \in {IF arg[1] = "jid" THEN jid2pid(job_list, arg[2]) ELSE arg[2]} :
        sh' = IF pid <= 0 THEN ShReturn
              ELSE [pc |-> "kill", cmd |-> cmd, pid |-> pid, job |-> NOJOB]
    /\ UNCHANGED <<job_list, nextjid, kids, pending, blocked, gone>>
    /\ UNCHANGED <<alloc_vars, proxy_vars, class_vars>>

\* builtin_fg, builtin_bg: kill(-pid, SIGCONT), unix_error when it fails. The
\* kernel tells the parent of a child that is resumed with a SIGCHLD.
KillCont ==
    /\ gone = "no"
    /\ sh.pc = "kill"
    /\ IF kill_ok(kids, sh.pid)
       THEN /\ kids' = signalled(kids, sh.pid, "CONT")
            /\ pending' = IF kids' # kids THEN pending \cup {"CHLD"} ELSE pending
            /\ sh' = ShGoto("getjob")
            /\ gone' = gone
       ELSE /\ gone' = "exit"
            /\ UNCHANGED <<kids, pending, sh>>
    /\ UNCHANGED <<job_list, nextjid, blocked>>
    /\ UNCHANGED <<alloc_vars, proxy_vars, class_vars>>

\* builtin_fg, builtin_bg: struct job_t * job = getjobpid(job_list, pid)
GetJob ==
    /\ gone = "no"
    /\ sh.pc = "getjob"
    /\ sh' = [sh EXCEPT !.pc = "store", !.job = getjobpid(job_list, sh.pid)]
    /\ UNCHANGED <<job_list, nextjid, kids, pending, blocked, gone>>
    /\ UNCHANGED <<alloc_vars, proxy_vars, class_vars>>

\* builtin_fg: job->state = FG, then the wait loop; builtin_bg: job->state =
\* BG, the job is printed and the builtin returns. A store through the null
\* pointer ends the shell.
StoreState ==
    /\ gone = "no"
    /\ sh.pc = "store"
    /\ IF sh.job = NOJOB
       THEN /\ gone' = "segv"
            /\ UNCHANGED <<job_list, sh>>
       ELSE /\ job_list' = [job_list EXCEPT ![sh.job].state = IF sh.cmd = "fg" THEN FG ELSE BG]
            /\ sh' = IF sh.cmd = "fg" THEN ShGoto("wait") ELSE ShReturn
            /\ gone' = gone
    /\ UNCHANGED <<nextjid, kids, pending, blocked>>
    /\ UNCHANGED <<alloc_vars, proxy_vars, class_vars>>

\* while(fgpid(job_list)!=0): the test. After the loop non_builtin_process
\* unblocks the signals and returns, builtin_fg returns.
WaitTest ==
    /\ gone = "no"
    /\ sh.pc = "wait"
    /\ IF fgpid(job_list) # 0
       THEN /\ sh' = ShGoto("suspend")
            /\ blocked' = blocked
       ELSE /\ sh' = ShReturn
            /\ blocked' = IF sh.cmd = "run" THEN FALSE ELSE blocked
    /\ UNCHANGED <<job_list, nextjid, kids, pending, gone>>
    /\ UNCHANGED <<alloc_vars, proxy_vars, class_vars>>

\* sigsuspend(&suspend_mask): the shell sleeps with no signal blocked
Suspend ==
    /\ gone = "no"
    /\ sh.pc = "suspend"
    /\ sh' = ShGoto("asleep")
    /\ UNCHANGED <<job_list, nextjid, kids, pending, blocked, gone>>
    /\ UNCHANGED <<alloc_vars, proxy_vars, class_vars>>

\* a signal is delivered when it is pending and either not blocked or the
\* shell is in sigsuspend
Deliverable(sig) ==
    /\ gone = "no"
    /\ sig \in pending
    /\ ~blocked \/ sh.pc = "asleep"

\* sigsuspend returns after the handler has run
AfterHandler == IF sh.pc = "asleep" THEN ShGoto("wait") ELSE sh

\* sigchld_handler
SigChld ==
    /\ Deliverable("CHLD")
    /\ \E r \in {sigchld_loop(job_list, nextjid, kids)} :
        /\ job_list' = r.jl
        /\ nextjid' = r.nj
        /\ kids' = r.kd
        /\ gone' = IF r.null THEN "segv" ELSE gone
    /\ pending' = pending \ {"CHLD"}
    /\ sh' = AfterHandler
    /\ UNCHANGED blocked
    /\ UNCHANGED <<alloc_vars, proxy_vars, class_vars>>

\* sigint_handler, sigtstp_handler: the signal is passed on to the process
\* group of the pid that fgpid returns, unless that is 0
Forward(sig) ==
    /\ Deliverable(sig)
    /\ IF fgpid(job_list) = 0
       THEN /\ pending' = pending \ {sig}
            /\ UNCHANGED <<kids, gone>>
       ELSE IF kill_ok(kids, fgpid(job_list))
       THEN /\ kids' = signalled(kids, fgpid(job_list), sig)
            /\ pending' = (pending \ {sig}) \cup (IF kids' # kids THEN {"CHLD"} ELSE {})
            /\ gone' = gone
       ELSE /\ gone' = "exit"
            /\ pending' = pending \ {sig}
            /\ UNCHANGED kids
    /\ sh' = AfterHandler
    /\ UNCHANGED <<job_list, nextjid, blocked>>
    /\ UNCHANGED <<alloc_vars, proxy_vars, class_vars>>

\* a child runs to its end: it is a zombie and the shell is sent SIGCHLD
ChildExit(p) ==
    /\ gone = "no"
    /\ kids[p] = "running"
    /\ kids' = [kids EXCEPT ![p] = "zombie"]
    /\ pending' = pending \cup {"CHLD"}
    /\ UNCHANGED <<job_list, nextjid, sh, blocked, gone>>
    /\ UNCHANGED <<alloc_vars, proxy_vars, class_vars>>

\* ctrl-c, ctrl-z: the terminal sends SIGINT, SIGTSTP to the shell
Keyboard(sig) ==
    /\ gone = "no"
    /\ sig \notin pending
    /\ pending' = pending \cup {sig}
    /\ UNCHANGED <<job_list, nextjid, sh, kids, blocked, gone>>
    /\ UNCHANGED <<alloc_vars, proxy_vars, class_vars>>

ShellInit ==
    /\ mem = << >>
    /\ brk = 0
    /\ heap_listp = NULL
    /\ seg_list_start = NULL
    /\ req = [q \in {} |-> 0]
    /\ crashed = FALSE
    /\ fault = FALSE
    /\ clash = FALSE
    /\ client = "none"
    /\ ProxyStart
    /\ ShellStart
    /\ ClassStart

ShellNext ==
    \/ \E bg \in BOOLEAN : Launch(bg)
    \/ \E cmd \in {"fg", "bg"}, arg \in JobArgs : Builtin(cmd, arg)
    \/ KillCont
    \/ GetJob
    \/ StoreState
    \/ WaitTest
    \/ Suspend
    \/ SigChld
    \/ \E sig \in {"INT", "TSTP"} : Forward(sig)
    \/ \E p \in Pids : ChildExit(p)
    \/ \E sig \in {"INT", "TSTP"} : Keyboard(sig)

ShellSpec == ShellInit /\ [][ShellNext]_vars

\* the jobs in the foreground: the slots of a process whose state is FG
Foreground == {i \in Slots : job_list[i].pid # 0 /\ job_list[i].state = FG}

\* C25: at most one job is in the FG state in every reachable state, whatever
\* the interleaving of the handlers of SIGCHLD, SIGINT and SIGTSTP with eval
C25_OneForeground == Cardinality(Foreground) <= 1


(* ======================================================================== *)
(* The frame of the heap                                                    *)
(* ======================================================================== *)

\* the heap of state s begins with the directory of SEG_NUM slots, then the
\* padding word and a prologue whose header holds the given size and the
\* allocated bit, and its last word is an epilogue header of size 0 with the
\* allocated bit
Framed(s, size) ==
    /\ s.sls = 0
    /\ s.hl = SEG_NUM * DSIZE + 2 * WSIZE
    /\ GET_SIZE(s, s.hl - WSIZE) = size
    /\ GET_ALLOC(s, s.hl - WSIZE) = 1
    /\ GET_SIZE(s, s.brk - WSIZE) = 0
    /\ GET_ALLOC(s, s.brk - WSIZE) = 1

\* C32 as stated: after a successful init and after every later operation the
\* heap begins with the directory followed by a prologue whose header has
\* size 16 and allocated bit 1, and ends with an epilogue header of size 0
\* and allocated bit 1 in its last 4 bytes.
C32_PrologueOf16 == Ready => Framed(Cur, 2 * DSIZE)

\* C32, amended: the same with a prologue header of size 8 (header and footer,
\* no payload).
C32_HeapFrame == Ready => Framed(Cur, DSIZE)

\* the heap has been extended past its first chunk, a block is held and a
\* block is free
C32_Witness ==
    /\ Ready
    /\ brk > InitSize
    /\ Live # {}
    /\ FreeBlocks # {}
    /\ Framed(Cur, DSIZE)


(* ======================================================================== *)
(* The size classes                                                         *)
(* ======================================================================== *)

\* lower bounds of the 14 classes, as the specification lists them
ClassLow ==
    <<0, 16, 32, 64, 128, 256, 480, 960, 1920, 3840, 7680, 15360, 30720, 61440>>

\* sizes given to the classifier: every bound, its two neighbours, the sizes
\* the allocator makes up to 64, and the largest values of a size_t
ClassInputs ==
    UNION {{ClassLow[k] - 1, ClassLow[k], ClassLow[k] + 1} : k \in 2 .. SEG_NUM}
    \cup {8 * k : k \in 0 .. 8} \cup {0, 1, 100000, -1, -8}
    \cup {INT_MAX - 7, INT_MAX + 1}

\* get_seg_listp(size), with seg_list_start at BASEADDR; the call before it
\* is kept beside it
Classify(size) ==
    /\ asked' = <<asked[2], size>>
    /\ listps' = <<listps[2], get_seg_listp([sls |-> 0], size)>>
    /\ UNCHANGED <<alloc_vars, proxy_vars, shell_vars>>

ClassInit ==
    /\ mem = << >>
    /\ brk = 0
    /\ heap_listp = NULL
    /\ seg_list_start = NULL
    /\ req = [q \in {} |-> 0]
    /\ crashed = FALSE
    /\ fault = FALSE
    /\ clash = FALSE
    /\ client = "none"
    /\ ProxyStart
    /\ ShellStart
    /\ ClassStart

ClassNext == \E size \in ClassInputs : Classify(size)

ClassSpec == ClassInit /\ [][ClassNext]_vars

\* the class whose half-open range holds the size S, read off the bounds
ClassOf(S) ==
    CHOOSE i \in 0 .. SEG_NUM - 1 :
        /\ ULE(ClassLow[i + 1], S)
        /\ i < SEG_NUM - 1 => ULT(S, ClassLow[i + 2])

\* C34: the classifier returns for every size S the index i in 0..13 of the
\* half-open range that holds S, the lower bounds being 0, 16, 32, 64, 128,
\* 256, 480, 960, 1920, 3840, 7680, 15360, 30720, 61440; it is monotone in S,
\* and the slot it selects is slot i, at offset 8 * i from BASE.
C34_Classifier ==
    /\ \A k \in 1 .. 2 : listps[k] = DSIZE * ClassOf(asked[k])
    /\ ULE(asked[1], asked[2]) => listps[1] <= listps[2]

\* a size just below a bound and the bound itself fall in neighbouring
\* classes, and the largest size_t falls in the last class
C34_Witness ==
    \/ asked = <<SEG_SIZE7 - 1, SEG_SIZE7>> /\ listps = <<6 * DSIZE, 7 * DSIZE>>
    \/ asked = <<SEG_SIZE13, -1>> /\ listps = <<13 * DSIZE, 13 * DSIZE>>


(* ------------------------ the checker on the heap --------------------- *)
\* what mm_checkheap gives when it prints nothing and returns
Silent == [out |-> {}, ends |-> TRUE]

\* C35: in every state reached by initialization followed by any sequence of
\* malloc, free, realloc and calloc, whatever the client has stored in the
\* payloads it holds, mm_checkheap prints no diagnostic and returns
\* (it has no store, so it leaves the allocator's state as it is).
C35_CheckerSilent ==
    Ready => \A junk \in JunkWords : mm_checkheap(Before(junk)) = Silent


\* the sizes a block of a heap of less than 4 GiB can have
IsBlockSize(S) == S >= 2 * DSIZE /\ S % DSIZE = 0

\* C35 (the list-class check): a free block of any size is in the list that
\* get_seg_listp gives for its size, and check_list's test of the node
\* against the bounds mm_checkheap hands it for that list passes.
C35_ClassCheckPasses ==
    \A k \in 1 .. 2 :
        IsBlockSize(asked[k]) =>
            ~wrong_list(asked[k], sizes[listps[k] \div DSIZE + 1],
                        sizes[listps[k] \div DSIZE + 2])


\* the heap s with the whole of list i hung on the slot of list j
Rehung(s, i, j) ==
    SlotPut(SlotPut(s, s.sls + j * DSIZE, SlotGet(s, s.sls + i * DSIZE)),
            s.sls + i * DSIZE, NULL)

\* C36: on a heap in which a free list holds a node whose size is outside
\* the range of the list, the only or the last node of the list included,
\* mm_checkheap prints a diagnostic.  The heaps taken are the reachable ones
\* with a nonempty list moved to the empty slot of another class.
C36_WrongListReported ==
    Ready =>
        \A i \in Lists, j \in Lists :
            (i # j /\ SegList(i) # << >> /\ SegList(j) = << >>) =>
                mm_checkheap(Rehung(Cur, i, j)).out # {}

\* the heap s with the next link of the last node of the list nodes set to
\* the first node, and the prev link of the first set to the last
Cycled(s, nodes) ==
    SET_PREV(SET_NEXT(s, nodes[Len(nodes)], REAL_OFFSET(nodes[1])),
             nodes[1], REAL_OFFSET(nodes[Len(nodes)]))

\* C37: on a heap one of whose free lists is a cycle, mm_checkheap returns
\* and has printed a diagnostic.  The heaps taken are the reachable ones
\* with a nonempty list closed into a cycle.
C37_CycleReported ==
    Ready =>
        \A i \in Lists :
            SegList(i) # << >> =>
                \E r \in {mm_checkheap(Cycled(Cur, SegList(i)))} :
                    r.ends /\ r.out # {}


(* ------------------- a raw heap too small for mm_init ------------------ *)
\* the largest raw heap of TinySpec, in words
TinyWords == 160

\* the raw heap has room for k words and nothing has been called
TinyInit ==
    /\ mem \in {Rep(0, k) : k \in 0 .. TinyWords}
    /\ brk = 0
    /\ heap_listp = NULL
    /\ seg_list_start = NULL
    /\ req = [q \in {} |-> 0]
    /\ crashed = FALSE
    /\ fault = FALSE
    /\ clash = FALSE
    /\ client = "mixed"
    /\ ProxyStart
    /\ ShellStart
    /\ ClassStart

\* the client calls malloc and nothing else
TinyNext == \E n \in MallocSizes : Malloc(n)

TinySpec == TinyInit /\ [][TinyNext]_vars

\* find_fit reads the 8 bytes of the directory slot of the class of asize
\* before anything else, and extend_heap reads the word before the break:
\* both lie in the heap
first_reads_in_heap(s, asize) ==
    /\ in_heap(s, get_seg_listp(s, asize))
    /\ in_heap(s, get_seg_listp(s, asize) + DSIZE - 1)
    /\ in_heap(s, HDRP(mem_heap_hi(s) + 1))

\* no call has extended the raw heap and heap_listp is 0
Untouched(s) == s.hl = NULL /\ s.brk = 0

\* C33: when malloc(n), n > 0, is the first call and the raw heap refuses an
\* extension that mm_init asks for, malloc returns NULL, stores nothing
\* outside the heap, reads nothing outside the heap, and the heap it leaves
\* to a later malloc is either untouched or has its directory, its prologue
\* and its epilogue.
C33_InitFailureIsClean ==
    Untouched(Cur) =>
        \A junk \in JunkWords, n \in MallocSizes :
            \A i \in {mm_init(Before(junk))} :
                i.rc = -1 =>
                    \A m \in {malloc(Before(junk), n)} :
                        /\ m.p = NULL
                        /\ ~m.s.fault
                        /\ first_reads_in_heap(i.s, adjusted_size(n))
                        /\ Untouched(m.s) \/ Framed(m.s, DSIZE)


(* --------------------------- evict, on its own ------------------------- *)
\* the blocks of the walk w are linked both ways and the first has no prev
Linked(bs, w) ==
    /\ w # << >> => bs[w[1]].prev = 0
    /\ \A k \in 1 .. Len(w) - 1 : bs[w[k + 1]].prev = w[k]

\* C38: evict on a cache that is not empty takes the block of the smallest
\* age off the list: after it that block is not reached from c->head, the
\* blocks that are reached are linked both ways with the prev of the first
\* NULL, c->size is lower by the size of the block, and nothing but the
\* block's memory is freed (the call does not go through a null pointer).
C38_EvictRemovesOldest ==
    [][\A t \in Threads :
         (thr[t].pc = "evict" /\ thr'[t].pc = "insert_test" /\ cache.head # 0) =>
             \A old \in {OldestFrom(blocks, cache.head, 0, Len(blocks) + 1)} :
                 /\ ~killed'
                 /\ old \notin Range(Cached')
                 /\ Linked(blocks', Cached')
                 /\ cache'.size = cache.size - blocks[old].size]_vars


(* ------------------------- one block for a uri ------------------------- *)
\* C40: under every interleaving of the threads, no two of the blocks
\* reached from c->head hold the same uri, also when several threads have
\* missed the same uri in read_cache and each calls write_cache for it.
C40_NoDuplicateUri ==
    \A i \in DOMAIN Cached, j \in DOMAIN Cached :
        i # j => blocks[Cached[i]].uri # blocks[Cached[j]].uri


(* ----------------------- a job list that fills up ---------------------- *)
\* the background jobs started before the run looked at: with MaxPids more
\* children the last launch finds no free slot
Crowd == MAXJOBS - (MaxPids - 1)

\* The shell after Crowd background launches: jobs 1..Crowd fill the first
\* slots, their processes (pids above those of Pids) run in the background
\* and stay there, the signals are unblocked and the shell is at its prompt.
CrowdInit ==
    /\ mem = << >>
    /\ brk = 0
    /\ heap_listp = NULL
    /\ seg_list_start = NULL
    /\ req = [q \in {} |-> 0]
    /\ crashed = FALSE
    /\ fault = FALSE
    /\ clash = FALSE
    /\ client = "none"
    /\ ProxyStart
    /\ ClassStart
    /\ job_list = [i \in Slots |-> IF i <= Crowd
                                   THEN [pid |-> MaxPids + i, jid |-> i, state |-> BG]
                                   ELSE clearjob]
    /\ nextjid = Crowd + 1
    /\ sh = ShReturn
    /\ kids = [p \in Pids |-> "unborn"]
    /\ pending = {}
    /\ blocked = FALSE
    /\ gone = "no"

\* the user types commands that are not builtins, ctrl-c and ctrl-z
CrowdNext ==
    \/ \E bg \in BOOLEAN : Launch(bg)
    \/ WaitTest
    \/ Suspend
    \/ SigChld
    \/ \E sig \in {"INT", "TSTP"} : Forward(sig)
    \/ \E p \in Pids : ChildExit(p)
    \/ \E sig \in {"INT", "TSTP"} : Keyboard(sig)

CrowdSpec == CrowdInit /\ [][CrowdNext]_vars

\* C39: non_builtin_process unblocks SIGCHLD, SIGINT and SIGTSTP on every
\* path by which it returns: the shell is never back at its prompt with the
\* three signals blocked.
C39_PromptUnblocked == (gone = "no" /\ sh.pc = "prompt") => ~blocked

============================================================================
